---- MODULE Spec2Model ----
(***************************************************************************)
(* Annual-fee event scheduler of plan.cards (backend/app/services/         *)
(* card_service.py) together with the event CRUD layer that feeds it.      *)
(*                                                                         *)
(* One card is followed through create_card, update_card, close_card,      *)
(* reopen_card, product_change and the event endpoints.  `events` holds    *)
(* the card's annual_fee_posted rows: every query of the modelled code     *)
(* filters on that event type, so rows of the other types (opened, closed, *)
(* product_change, reopened) are never read and are left out.              *)
(*                                                                         *)
(* Dates are integers yyyymmdd, so that date order is integer order and    *)
(* dateutil's relativedelta (clamp to the month's last day) is computed.   *)
(***************************************************************************)
EXTENDS Integers, Sequences, FiniteSets, Bags, TLC

VARIABLES card, events, benefits, categories, others, summary, today, last, served,
          returned

vars == <<card, events, benefits, categories, others, summary, today, last, served,
          returned>>

\* Python None for `date | None`, `int | None`, `str | None`
NoDate == 0
NoFee == -1
NoTemplate == "none"
NoVersion == <<>>

----------------------------------------------------------------------------
\* Bounds of the model

\* product_change, update_card, event and benefit write requests served on the
\* card
MaxRequests == 2

\* custom benefits and custom bonus categories on the card
MaxEdits == 2

\* the dates get_today can return, in the order time passes
TodayDates == {20250615, 20260615}

\* dates a request can carry
OpenDates == {20230615, 20240229}
ChangeDates == {20240229, 20240615}
CloseDates == {20230101, 20250101}
EventDates == {20250615}
DueDates == {20250101}

\* fees a request can carry
CreateFees == {NoFee, 0, 95}
ChangeFees == {NoFee, 0, 550}
EventFees == {95}

----------------------------------------------------------------------------
\* datetime.date and dateutil.relativedelta

Year(d) == d \div 10000
Month(d) == (d \div 100) % 100
Day(d) == d % 100
MkDate(y, m, dd) == y * 10000 + m * 100 + dd

IsLeap(y) == (y % 4 = 0 /\ y % 100 # 0) \/ y % 400 = 0

DaysInMonth(y, m) ==
    IF m = 2 THEN (IF IsLeap(y) THEN 29 ELSE 28)
    ELSE IF m \in {4, 6, 9, 11} THEN 30 ELSE 31

\* d + relativedelta(months=n): move the month, then clamp the day
AddMonths(d, n) ==
    LET t == Year(d) * 12 + (Month(d) - 1) + n
        y == t \div 12
        m == (t % 12) + 1
        dim == DaysInMonth(y, m)
    IN  MkDate(y, m, IF Day(d) > dim THEN dim ELSE Day(d))

\* d + relativedelta(years=n)
AddYears(d, n) == AddMonths(d, 12 * n)

\* d - relativedelta(days=1)
PrevDay(d) ==
    IF Day(d) > 1 THEN d - 1
    ELSE IF Month(d) > 1
         THEN MkDate(Year(d), Month(d) - 1, DaysInMonth(Year(d), Month(d) - 1))
         ELSE MkDate(Year(d) - 1, 12, 31)

\* d + relativedelta(days=1)
NextDay(d) ==
    IF Day(d) < DaysInMonth(Year(d), Month(d)) THEN d + 1
    ELSE IF Month(d) < 12 THEN MkDate(Year(d), Month(d) + 1, 1)
         ELSE MkDate(Year(d) + 1, 1, 1)

----------------------------------------------------------------------------
\* utils/period_utils.py: the window (period_start, period_end) of a benefit

Frequencies == {"monthly", "quarterly", "semi_annual", "annual"}
ResetTypes == {"calendar", "cardiversary"}

\* _FREQUENCY_DELTA in months, with the default of .get(): one year
_FREQUENCY_DELTA(frequency) ==
    CASE frequency = "monthly" -> 1
      [] frequency = "quarterly" -> 3
      [] frequency = "semi_annual" -> 6
      [] OTHER -> 12

\* _cardiversary_period with every window start recomputed from open_date
RECURSIVE AnchoredWalk(_, _, _, _)
AnchoredWalk(open_date, k, delta, ref) ==
    IF AddMonths(open_date, (k + 1) * delta) > ref
    THEN << AddMonths(open_date, k * delta),
            PrevDay(AddMonths(open_date, (k + 1) * delta)) >>
    ELSE AnchoredWalk(open_date, k + 1, delta, ref)

_cardiversary_period_FromAnchor(frequency, open_date, ref) ==
    AnchoredWalk(open_date, 0, _FREQUENCY_DELTA(frequency), ref)

\* _calendar_period with the quarter taken for every frequency but annual
_calendar_period_Quarters(frequency, ref) ==
    IF frequency \in {"monthly", "quarterly", "semi_annual"}
    THEN << MkDate(Year(ref), ((Month(ref) - 1) \div 3) * 3 + 1, 1),
            PrevDay(AddMonths(MkDate(Year(ref), ((Month(ref) - 1) \div 3) * 3 + 1, 1),
                              3)) >>
    ELSE << MkDate(Year(ref), 1, 1), MkDate(Year(ref), 12, 31) >>

\* the walk of _cardiversary_period with the window ending on the day the next
\* one starts
RECURSIVE CardiversaryWalk_EndOnStart(_, _, _)
CardiversaryWalk_EndOnStart(cursor, delta, ref) ==
    LET next_cursor == AddMonths(cursor, delta)
    IN  IF next_cursor > ref THEN << cursor, next_cursor >>
        ELSE CardiversaryWalk_EndOnStart(next_cursor, delta, ref)

_calendar_period(frequency, ref) ==
    LET start ==
            CASE frequency = "monthly" -> MkDate(Year(ref), Month(ref), 1)
              [] frequency = "quarterly" ->
                   MkDate(Year(ref), ((Month(ref) - 1) \div 3) * 3 + 1, 1)
              [] frequency = "semi_annual" ->
                   MkDate(Year(ref), IF Month(ref) <= 6 THEN 1 ELSE 7, 1)
              [] OTHER -> MkDate(Year(ref), 1, 1)
    IN  IF frequency \in {"monthly", "quarterly", "semi_annual"}
        THEN << start, PrevDay(AddMonths(start, _FREQUENCY_DELTA(frequency))) >>
        ELSE << start, MkDate(Year(ref), 12, 31) >>

\* the walk `cursor = next_cursor` from open_date to the period holding ref
RECURSIVE CardiversaryWalk(_, _, _)
CardiversaryWalk(cursor, delta, ref) ==
    LET next_cursor == AddMonths(cursor, delta)
    IN  IF next_cursor > ref THEN << cursor, PrevDay(next_cursor) >>
        ELSE CardiversaryWalk(next_cursor, delta, ref)

_cardiversary_period(frequency, open_date, ref) ==
    CardiversaryWalk(open_date, _FREQUENCY_DELTA(frequency), ref)

get_current_period(frequency, reset_type, open_date, ref) ==
    IF reset_type = "cardiversary" /\ open_date # NoDate
    THEN _cardiversary_period(frequency, open_date, ref)
    ELSE _calendar_period(frequency, ref)

----------------------------------------------------------------------------
\* Template catalog (template_loader._templates and ._old_versions).
\* A version id is the sequence of its characters, so that the year token is
\* found by the scan the regular expression performs.

Digits == {"0", "1", "2", "3", "4", "5", "6", "7", "8", "9"}

DigitVal(c) ==
    CASE c = "0" -> 0 [] c = "1" -> 1 [] c = "2" -> 2 [] c = "3" -> 3
      [] c = "4" -> 4 [] c = "5" -> 5 [] c = "6" -> 6 [] c = "7" -> 7
      [] c = "8" -> 8 [] c = "9" -> 9

\* Python None for a `str | None` note and an `int | None` cap
NoNotes == "none"
NoCap == NoFee

\* TemplateCreditOut, TemplateSpendThresholdOut, TemplateBonusCategoryOut
Credit(name, amount, frequency, reset_type) ==
    [name |-> name, amount |-> amount, frequency |-> frequency,
     reset_type |-> reset_type]

Threshold(name, spend_required, frequency, reset_type, description) ==
    [name |-> name, spend_required |-> spend_required, frequency |-> frequency,
     reset_type |-> reset_type, description |-> description]

BonusCategory(category, multiplier, portal_only, cap) ==
    [category |-> category, multiplier |-> multiplier,
     portal_only |-> portal_only, cap |-> cap]

\* current definition of each template: template_loader._templates.  An empty
\* list stands for a missing benefits block as well: the code tests
\* `template.benefits and template.benefits.credits` before it reads one.
Templates ==
    [ plat |-> [version_id |-> <<"p", "_", "2", "0", "2", "5", "_", "1">>,
                annual_fee |-> 895,
                credits |-> << Credit("uber", 15, "monthly", "calendar"),
                               Credit("clear", 200, "annual", "cardiversary") >>,
                spend_thresholds |->
                    << Threshold("nights", 75, "annual", "cardiversary", "free night") >>,
                bonus_categories |-> << BonusCategory("dining", "4x", FALSE, NoCap),
                                        BonusCategory("travel", "5x", TRUE, NoCap) >>],
      free |-> [version_id |-> <<"f", "_", "v", "2", "0", "2", "2">>,
                annual_fee |-> 95,
                credits |-> << Credit("uber", 10, "quarterly", "calendar") >>,
                spend_thresholds |-> << >>,
                bonus_categories |-> << BonusCategory("dining", "3x", FALSE, 500),
                                        BonusCategory("gas", "2x", FALSE, NoCap) >>],
      \* a template whose YAML carries no version id
      basic |-> [version_id |-> NoVersion,
                 annual_fee |-> NoFee,
                 credits |-> << Credit("uber", 5, "monthly", "calendar") >>,
                 spend_thresholds |-> << >>,
                 bonus_categories |-> << >>],
      \* a versioned template that declares no annual fee and no benefits
      cash |-> [version_id |-> <<"c", "_", "2", "0", "2", "5", "_", "1">>,
                annual_fee |-> NoFee,
                credits |-> << >>,
                spend_thresholds |-> << >>,
                bonus_categories |-> << >>],
      \* a template with a longer version history and no benefits
      gold |-> [version_id |-> <<"g", "_", "2", "0", "2", "5", "_", "2">>,
                annual_fee |-> 325,
                credits |-> << >>,
                spend_thresholds |-> << >>,
                bonus_categories |-> << >>] ]

\* superseded definitions of each template: template_loader._old_versions
OldVersions ==
    [ plat |-> << [version_id |-> <<"p", "_", "2", "0", "2", "4", "_", "1">>,
                   annual_fee |-> 695],
                  [version_id |-> <<"p", "_", "2", "0", "1", "9", "_", "1">>,
                   annual_fee |-> NoFee] >>,
      free |-> << >>,
      basic |-> << >>,
      cash |-> << >>,
      \* an earlier version of the current year, a version of 2021, a version
      \* whose id has no _YYYY_ token and a version without a fee
      gold |-> << [version_id |-> <<"g", "_", "2", "0", "2", "5", "_", "1">>,
                   annual_fee |-> 295],
                  [version_id |-> <<"g", "_", "2", "0", "2", "1", "_", "1">>,
                   annual_fee |-> 250],
                  [version_id |-> <<"g", "_", "v", "2", "0", "1", "8">>,
                   annual_fee |-> 195],
                  [version_id |-> <<"g", "_", "2", "0", "1", "6", "_", "1">>,
                   annual_fee |-> NoFee] >> ]

TemplateIds == DOMAIN Templates

\* template_loader.get_template: TRUE when the catalog knows the id
HasTemplate(template_id) == template_id \in TemplateIds

get_template(template_id) == Templates[template_id]

\* template_loader.get_template_versions: current first, then the old ones
get_template_versions(template_id) ==
    IF ~HasTemplate(template_id) THEN << >>
    ELSE (IF Templates[template_id].version_id # NoVersion
             THEN << [version_id |-> Templates[template_id].version_id,
                      annual_fee |-> Templates[template_id].annual_fee] >>
             ELSE << >>)
         \o OldVersions[template_id]

\* re.search(r"_(\d{4})_", version_id): the positions where the pattern matches
YearMatches(vid) ==
    { i \in 1..Len(vid) :
        /\ i + 5 <= Len(vid)
        /\ vid[i] = "_"
        /\ \A k \in 1..4 : vid[i + k] \in Digits
        /\ vid[i + 5] = "_" }

SetMin(S) == CHOOSE x \in S : \A y \in S : x <= y
SetMax(S) == CHOOSE x \in S : \A y \in S : x >= y

\* int(match.group(1)) of the leftmost match
YearOf(vid) ==
    LET i == SetMin(YearMatches(vid))
    IN  DigitVal(vid[i + 1]) * 1000 + DigitVal(vid[i + 2]) * 100
        + DigitVal(vid[i + 3]) * 10 + DigitVal(vid[i + 4])

\* the loop of _build_fee_timeline over the versions, in order; a later
\* version with the same year overwrites the earlier entry
RECURSIVE TimelineOf(_, _)
TimelineOf(versions, timeline) ==
    IF versions = << >> THEN timeline
    ELSE LET v == Head(versions)
             skip == v.annual_fee = NoFee \/ YearMatches(v.version_id) = {}
             year == YearOf(v.version_id)
         IN  TimelineOf(Tail(versions),
                 IF skip THEN timeline
                 ELSE [y \in DOMAIN timeline \cup {year} |->
                          IF y = year THEN v.annual_fee ELSE timeline[y]])

_build_fee_timeline(template_id) ==
    TimelineOf(get_template_versions(template_id), << >>)

\* _get_fee_for_year with the alternative lookup rule "earliest year at or
\* below the anniversary year"
_get_fee_for_year_Earliest(timeline, year) ==
    IF DOMAIN timeline = {} THEN NoFee
    ELSE LET applicable == {y \in DOMAIN timeline : y <= year}
         IN  IF applicable # {} THEN timeline[SetMin(applicable)]
             ELSE timeline[SetMin(DOMAIN timeline)]

\* _get_fee_for_year that always answers with the latest year of the timeline
_get_fee_for_year_Latest(timeline, year) ==
    IF DOMAIN timeline = {} THEN NoFee
    ELSE timeline[SetMax(DOMAIN timeline)]

_get_fee_for_year(timeline, year) ==
    IF DOMAIN timeline = {} THEN NoFee
    ELSE LET applicable == {y \in DOMAIN timeline : y <= year}
         IN  IF applicable # {} THEN timeline[SetMax(applicable)]
             ELSE timeline[SetMin(DOMAIN timeline)]

\* the fee one walk iteration gives its event: the timeline's fee when the
\* timeline is not empty, the flat fee otherwise or when the lookup is None
ResolveFee(fee_timeline, year, annual_fee) ==
    LET fee == IF DOMAIN fee_timeline # {}
                  THEN _get_fee_for_year(fee_timeline, year)
                  ELSE annual_fee
    IN  IF fee = NoFee THEN annual_fee ELSE fee

\* fee timeline the walks use: built only when the card has a template id
CardTimeline(template_id) ==
    IF template_id # NoTemplate THEN _build_fee_timeline(template_id) ELSE << >>

----------------------------------------------------------------------------
\* Rows and walks

\* a CardEvent row of type annual_fee_posted; metadata_json carries the fee
\* and, for the rows the engine generates, approximate_date = True
AfEvent(event_date, annual_fee, approximate_date) ==
    [event_date |-> event_date, annual_fee |-> annual_fee,
     approximate_date |-> approximate_date]

\* the dates a walk `while anniversary <= today` visits, and where it stops
RECURSIVE WalkDates(_, _)
WalkDates(anniversary, td) ==
    IF anniversary <= td
    THEN {anniversary} \cup WalkDates(AddYears(anniversary, 1), td)
    ELSE {}

\* WalkEnd with the loop test `anniversary < today`
RECURSIVE WalkEnd_Strict(_, _)
WalkEnd_Strict(anniversary, td) ==
    IF anniversary < td THEN WalkEnd_Strict(AddYears(anniversary, 1), td)
    ELSE anniversary

RECURSIVE WalkEnd(_, _)
WalkEnd(anniversary, td) ==
    IF anniversary <= td THEN WalkEnd(AddYears(anniversary, 1), td)
    ELSE anniversary

\* the rows the creation walk and the backfill walk add
WalkEvents(start, td, template_id, annual_fee) ==
    SetToBag({ AfEvent(a, ResolveFee(CardTimeline(template_id), Year(a), annual_fee), TRUE) :
                 a \in WalkDates(start, td) })

\* Python truthiness of `annual_fee and annual_fee > 0`
HasFee(annual_fee) == annual_fee # NoFee /\ annual_fee > 0

NoCard ==
    [id |-> 0, status |-> "active", open_date |-> NoDate, close_date |-> NoDate,
     annual_fee |-> NoFee, annual_fee_date |-> NoDate,
     annual_fee_user_modified |-> FALSE,
     template_id |-> NoTemplate, template_version_id |-> NoVersion]

----------------------------------------------------------------------------
\* Benefits and bonus categories of a card (models/card_benefit.py,
\* models/card_bonus_category.py).  The rows of a card form a sequence in id
\* order, the order in which the queries of the modelled code return them.

\* a CardBenefit row as its constructor leaves it: retired = False
CardBenefit(benefit_name, benefit_amount, frequency, reset_type, benefit_type, from_template, notes, period_start) ==
    [benefit_name |-> benefit_name, benefit_amount |-> benefit_amount,
     frequency |-> frequency, reset_type |-> reset_type,
     benefit_type |-> benefit_type, from_template |-> from_template,
     retired |-> FALSE, amount_used |-> 0, notes |-> notes,
     period_start |-> period_start]

CardBonusCategory(category, multiplier, portal_only, cap, from_template) ==
    [category |-> category, multiplier |-> multiplier,
     portal_only |-> portal_only, cap |-> cap, from_template |-> from_template]

\* the credits and the spend thresholds of a template as the benefit rows
\* read them: a threshold's amount is spend_required, its notes the description
CreditEntries(template) ==
    [k \in 1..Len(template.credits) |->
        [name |-> template.credits[k].name,
         amount |-> template.credits[k].amount,
         frequency |-> template.credits[k].frequency,
         reset_type |-> template.credits[k].reset_type,
         notes |-> NoNotes]]

ThresholdEntries(template) ==
    [k \in 1..Len(template.spend_thresholds) |->
        [name |-> template.spend_thresholds[k].name,
         amount |-> template.spend_thresholds[k].spend_required,
         frequency |-> template.spend_thresholds[k].frequency,
         reset_type |-> template.spend_thresholds[k].reset_type,
         notes |-> template.spend_thresholds[k].description]]

EntryNames(entries) == {entries[k].name : k \in 1..Len(entries)}

\* the template-owned benefit row created for one template entry
NewBenefit(entry, benefit_type, open_date, td) ==
    CardBenefit(entry.name, entry.amount, entry.frequency, entry.reset_type,
                benefit_type, TRUE, entry.notes,
                get_current_period(entry.frequency, entry.reset_type, open_date, td)[1])

\* card_service._populate_benefits_from_template for the current version
_populate_benefits_from_template(template_id, open_date, td) ==
    IF ~HasTemplate(template_id) THEN << >>
    ELSE LET credits == CreditEntries(get_template(template_id))
             spend_thresholds == ThresholdEntries(get_template(template_id))
         IN  [k \in 1..Len(credits) |-> NewBenefit(credits[k], "credit", open_date, td)]
             \o [k \in 1..Len(spend_thresholds) |->
                    NewBenefit(spend_thresholds[k], "spend_threshold", open_date, td)]

\* card_service._sync_benefits_for_product_change: every template-owned row is
\* retired, then the new template's rows are added
_sync_benefits_for_product_change(c, bs, td) ==
    [i \in 1..Len(bs) |->
        IF bs[i].from_template THEN [bs[i] EXCEPT !.retired = TRUE] ELSE bs[i]]
    \o (IF c.template_id # NoTemplate
        THEN _populate_benefits_from_template(c.template_id, c.open_date, td)
        ELSE << >>)

----------------------------------------------------------------------------
\* services/template_sync.py

\* a card with its benefit rows and its bonus-category rows
Bundle(c, bs, cs) == [card |-> c, benefits |-> bs, categories |-> cs]

NoSummary ==
    [cards_synced |-> 0, cards_initialized |-> 0, cards_skipped |-> 0,
     benefits_added |-> 0, benefits_updated |-> 0, benefits_retired |-> 0,
     bonus_categories_added |-> 0, bonus_categories_removed |-> 0]

\* the indexes 1..n in order
Indexes(n) == [i \in 1..n |-> i]

\* a dict comprehension {key: row for row in rows}: of the rows at the indexes I
\* with one key, the last one is the value the dict keeps
DictValues(I, Key(_)) == {i \in I : \A j \in I : Key(j) = Key(i) => j <= i}

\* the entry a dict built from the template list keeps for a name
EntryOf(entries, name) ==
    entries[SetMax({k \in 1..Len(entries) : entries[k].name = name})]

\* the positions of the template names in dict order (first insertion)
DictOrder(entries) ==
    SelectSeq(Indexes(Len(entries)),
              LAMBDA k : \A j \in 1..(k - 1) : entries[j].name # entries[k].name)

\* _initialize_card without the name tests: every row of the card is tagged
_initialize_card_TagAll(b, template) ==
    [card |-> [b.card EXCEPT !.template_version_id = template.version_id],
     benefits |-> [i \in 1..Len(b.benefits) |->
                     [b.benefits[i] EXCEPT !.from_template = TRUE]],
     categories |-> [i \in 1..Len(b.categories) |->
                       [b.categories[i] EXCEPT !.from_template = TRUE]]]

\* _initialize_card: the version is stamped and the rows whose name is a
\* template credit, threshold or category name are tagged
_initialize_card(b, template) ==
    LET benefit_names == EntryNames(CreditEntries(template))
                         \cup EntryNames(ThresholdEntries(template))
        template_cat_names ==
            {template.bonus_categories[k].category :
                k \in 1..Len(template.bonus_categories)}
    IN  [card |-> [b.card EXCEPT !.template_version_id = template.version_id],
         benefits |->
            [i \in 1..Len(b.benefits) |->
                IF b.benefits[i].benefit_name \in benefit_names
                THEN [b.benefits[i] EXCEPT !.from_template = TRUE]
                ELSE b.benefits[i]],
         categories |->
            [i \in 1..Len(b.categories) |->
                IF b.categories[i].category \in template_cat_names
                THEN [b.categories[i] EXCEPT !.from_template = TRUE]
                ELSE b.categories[i]]]

\* the template-owned rows of one type that the name dict of _sync_card holds
SyncedBenefits(bs, benefit_type) ==
    DictValues({i \in 1..Len(bs) : bs[i].from_template
                                    /\ bs[i].benefit_type = benefit_type},
               LAMBDA i : bs[i].benefit_name)

\* TRUE when the in-place update of _sync_card changes the row
BenefitChanged(benefit, entry) ==
    \/ benefit.benefit_amount # entry.amount
    \/ benefit.frequency # entry.frequency
    \/ benefit.reset_type # entry.reset_type
    \/ benefit.retired

\* the template entries of one type that get a new row
AddedEntries(bs, entries, benefit_type) ==
    SelectSeq(DictOrder(entries),
              LAMBDA k : \A i \in SyncedBenefits(bs, benefit_type) :
                            bs[i].benefit_name # entries[k].name)

\* SyncBenefits that starts the usage of a matched row over, as update_benefit
\* does on a change of frequency or reset type
SyncBenefits_ResetUsage(bs, entries, benefit_type, open_date, td) ==
    LET synced == SyncedBenefits(bs, benefit_type)
        added == AddedEntries(bs, entries, benefit_type)
    IN  [i \in 1..Len(bs) |->
            IF i \notin synced THEN bs[i]
            ELSE IF bs[i].benefit_name \in EntryNames(entries)
            THEN LET entry == EntryOf(entries, bs[i].benefit_name)
                 IN  [bs[i] EXCEPT !.benefit_amount = entry.amount,
                                   !.frequency = entry.frequency,
                                   !.reset_type = entry.reset_type,
                                   !.retired = FALSE,
                                   !.amount_used = 0,
                                   !.period_start =
                                       get_current_period(entry.frequency,
                                           entry.reset_type, open_date, td)[1]]
            ELSE [bs[i] EXCEPT !.retired = TRUE]]
        \o [k \in 1..Len(added) |->
               NewBenefit(EntryOf(entries, entries[added[k]].name), benefit_type,
                          open_date, td)]

\* one of the two benefit passes of _sync_card (credits, spend thresholds):
\* matched rows are updated in place and un-retired, unmatched ones retired,
\* and a row is added for every template entry without a match
SyncBenefits(bs, entries, benefit_type, open_date, td) ==
    LET synced == SyncedBenefits(bs, benefit_type)
        added == AddedEntries(bs, entries, benefit_type)
    IN  [i \in 1..Len(bs) |->
            IF i \notin synced THEN bs[i]
            ELSE IF bs[i].benefit_name \in EntryNames(entries)
            THEN LET entry == EntryOf(entries, bs[i].benefit_name)
                 IN  [bs[i] EXCEPT !.benefit_amount = entry.amount,
                                   !.frequency = entry.frequency,
                                   !.reset_type = entry.reset_type,
                                   !.retired = FALSE]
            ELSE [bs[i] EXCEPT !.retired = TRUE]]
        \o [k \in 1..Len(added) |->
               NewBenefit(EntryOf(entries, entries[added[k]].name), benefit_type,
                          open_date, td)]

\* the counts one benefit pass adds to the summary
BenefitCounts(bs, entries, benefit_type) ==
    LET synced == SyncedBenefits(bs, benefit_type)
    IN  [added |-> Len(AddedEntries(bs, entries, benefit_type)),
         updated |-> Cardinality({i \in synced :
                        /\ bs[i].benefit_name \in EntryNames(entries)
                        /\ BenefitChanged(bs[i], EntryOf(entries, bs[i].benefit_name))}),
         retired |-> Cardinality({i \in synced :
                        /\ bs[i].benefit_name \notin EntryNames(entries)
                        /\ ~bs[i].retired})]

\* the template categories as entries keyed by name
CategoryEntries(template) ==
    [k \in 1..Len(template.bonus_categories) |->
        [name |-> template.bonus_categories[k].category,
         multiplier |-> template.bonus_categories[k].multiplier,
         portal_only |-> template.bonus_categories[k].portal_only,
         cap |-> template.bonus_categories[k].cap]]

\* existing_cat_map: the template-owned category rows, one per name
SyncedCategories(cs) ==
    DictValues({i \in 1..Len(cs) : cs[i].from_template}, LAMBDA i : cs[i].category)

AddedCategories(cs, entries) ==
    SelectSeq(DictOrder(entries),
              LAMBDA k : \A i \in SyncedCategories(cs) :
                            cs[i].category # entries[k].name)

\* the rows of existing_cat_map that db.delete removes
RemovedCategories(cs, entries) ==
    {i \in SyncedCategories(cs) : cs[i].category \notin EntryNames(entries)}

\* the bonus-category pass of _sync_card
SyncCategories(cs, entries) ==
    LET synced == SyncedCategories(cs)
        kept == SelectSeq(Indexes(Len(cs)),
                          LAMBDA i : i \notin RemovedCategories(cs, entries))
        added == AddedCategories(cs, entries)
    IN  [k \in 1..Len(kept) |->
            LET i == kept[k]
            IN  IF i \in synced
                THEN LET tbc == EntryOf(entries, cs[i].category)
                     IN  [cs[i] EXCEPT !.multiplier = tbc.multiplier,
                                       !.portal_only = tbc.portal_only,
                                       !.cap = tbc.cap]
                ELSE cs[i]]
        \o [k \in 1..Len(added) |->
               LET tbc == EntryOf(entries, entries[added[k]].name)
               IN  CardBonusCategory(tbc.name, tbc.multiplier, tbc.portal_only,
                                     tbc.cap, TRUE)]

\* SyncedFee without the test of annual_fee_user_modified
SyncedFee_IgnoreFlag(c, template) ==
    IF template.annual_fee # NoFee THEN template.annual_fee ELSE c.annual_fee

\* the annual fee _sync_card leaves on the card
SyncedFee(c, template) ==
    IF template.annual_fee # NoFee /\ ~c.annual_fee_user_modified
    THEN template.annual_fee ELSE c.annual_fee

\* _sync_card: fee, credits, spend thresholds, bonus categories, version
_sync_card(b, template, td) ==
    [card |-> [b.card EXCEPT !.annual_fee = SyncedFee(b.card, template),
                             !.template_version_id = template.version_id],
     benefits |->
        SyncBenefits(
            SyncBenefits(b.benefits, CreditEntries(template), "credit",
                         b.card.open_date, td),
            ThresholdEntries(template), "spend_threshold", b.card.open_date, td),
     categories |-> SyncCategories(b.categories, CategoryEntries(template))]

\* the counts _sync_card adds to the summary
SyncCounts(b, template) ==
    LET credits == BenefitCounts(b.benefits, CreditEntries(template), "credit")
        thresholds == BenefitCounts(b.benefits, ThresholdEntries(template),
                                    "spend_threshold")
    IN  [NoSummary EXCEPT
           !.cards_synced = 1,
           !.benefits_added = credits.added + thresholds.added,
           !.benefits_updated = credits.updated + thresholds.updated,
           !.benefits_retired = credits.retired + thresholds.retired,
           !.bonus_categories_added =
               Len(AddedCategories(b.categories, CategoryEntries(template))),
           !.bonus_categories_removed =
               Cardinality(RemovedCategories(b.categories, CategoryEntries(template)))]

\* the filter of the query of sync_cards_to_templates
Queried_AnyStatus(b) == b.card.template_id # NoTemplate

Queried(b) == b.card.template_id # NoTemplate /\ b.card.status = "active"

\* SyncBranch without the comparison of the stored version with the current one
SyncBranch_NeverCurrent(b) ==
    IF ~HasTemplate(b.card.template_id) THEN "missing"
    ELSE IF get_template(b.card.template_id).version_id = NoVersion THEN "unversioned"
    ELSE IF b.card.template_version_id = NoVersion THEN "initialize"
    ELSE "sync"

\* SyncBranch without the first-contact branch: a card without a stored
\* version goes through _sync_card
SyncBranch_NoInitialize(b) ==
    IF ~HasTemplate(b.card.template_id) THEN "missing"
    ELSE IF get_template(b.card.template_id).version_id = NoVersion THEN "unversioned"
    ELSE IF b.card.template_version_id = get_template(b.card.template_id).version_id
    THEN "current"
    ELSE "sync"

\* which branch of the loop body a queried card takes
SyncBranch(b) ==
    IF ~HasTemplate(b.card.template_id) THEN "missing"
    ELSE IF get_template(b.card.template_id).version_id = NoVersion THEN "unversioned"
    ELSE IF b.card.template_version_id = NoVersion THEN "initialize"
    ELSE IF b.card.template_version_id = get_template(b.card.template_id).version_id
    THEN "current"
    ELSE "sync"

\* TRUE when the loop body calls _initialize_card or _sync_card for the card
Reconciled(b) == Queried(b) /\ SyncBranch(b) \in {"initialize", "sync"}

\* the card after the loop body
SyncedBundle(b, td) ==
    IF ~Reconciled(b) THEN b
    ELSE IF SyncBranch(b) = "initialize"
    THEN _initialize_card(b, get_template(b.card.template_id))
    ELSE _sync_card(b, get_template(b.card.template_id), td)

\* what the loop body adds to the summary for the card
SummaryOf(b) ==
    IF ~Queried(b) THEN NoSummary
    ELSE IF SyncBranch(b) = "initialize" THEN [NoSummary EXCEPT !.cards_initialized = 1]
    ELSE IF SyncBranch(b) = "sync" THEN SyncCounts(b, get_template(b.card.template_id))
    ELSE [NoSummary EXCEPT !.cards_skipped = 1]

AddSummary(a, b) == [k \in DOMAIN a |-> a[k] + b[k]]

\* the summary after the loop has run over the cards
RECURSIVE SummaryOfAll(_)
SummaryOfAll(fleet) ==
    IF fleet = << >> THEN NoSummary
    ELSE AddSummary(SummaryOf(Head(fleet)), SummaryOfAll(Tail(fleet)))

----------------------------------------------------------------------------
\* State

\* the request served last: the operation, whether it was accepted, the close,
\* change or event date of an accepted request, the annual_fee_date a creation
\* request carried and the reset_af_anniversary flag of an accepted change
NoRequest ==
    [op |-> "none", ok |-> TRUE, date |-> NoDate, due |-> NoDate, reset |-> FALSE]

Request(op, ok, date, due, reset) ==
    [op |-> op, ok |-> ok, date |-> date, due |-> due, reset |-> reset]

Init ==
    /\ card = NoCard
    /\ events = EmptyBag
    /\ benefits = << >>
    /\ categories = << >>
    /\ others = << >>
    /\ summary = NoSummary
    /\ today \in TodayDates
    /\ last = NoRequest
    /\ served = 0
    /\ returned = << >>

\* calendar time passes: get_today returns a later date
Tick ==
    /\ \E d \in TodayDates : d > today /\ today' = d
    /\ last' = Request("tick", TRUE, NoDate, NoDate, FALSE)
    /\ UNCHANGED <<card, events, benefits, categories, others, summary, served,
                   returned>>

----------------------------------------------------------------------------
\* create_card

\* template_version_id create_card stamps: the current version of a known
\* template (requests carry no explicit version)
CreateVersionId(template_id) ==
    IF template_id # NoTemplate /\ HasTemplate(template_id)
    THEN get_template(template_id).version_id ELSE NoVersion

\* annual_fee_date after create_card
CreateDueDate(open_date, annual_fee, annual_fee_date, td) ==
    LET cleared == IF annual_fee = NoFee \/ annual_fee = 0
                      THEN NoDate ELSE annual_fee_date
    IN  IF open_date # NoDate /\ HasFee(annual_fee) /\ annual_fee_date = NoDate
        THEN WalkEnd(open_date, td)
        ELSE cleared

CreateCard(template_id, status, open_date, close_date, annual_fee, annual_fee_date) ==
    /\ card.id = 0
    \* CardCreate.validate_dates
    /\ ~(close_date # NoDate /\ open_date # NoDate /\ close_date < open_date)
    /\ card' = [id |-> 1, status |-> status, open_date |-> open_date,
                close_date |-> close_date, annual_fee |-> annual_fee,
                annual_fee_date |->
                    CreateDueDate(open_date, annual_fee, annual_fee_date, today),
                annual_fee_user_modified |-> FALSE,
                template_id |-> template_id,
                template_version_id |-> CreateVersionId(template_id)]
    /\ events' = IF open_date # NoDate /\ HasFee(annual_fee)
                 THEN WalkEvents(open_date, today, template_id, annual_fee)
                 ELSE EmptyBag
    /\ benefits' = IF template_id # NoTemplate
                   THEN _populate_benefits_from_template(template_id, open_date, today)
                   ELSE << >>
    /\ last' = Request("create", TRUE, NoDate, annual_fee_date, FALSE)
    /\ UNCHANGED <<categories, others, summary, today, served, returned>>

----------------------------------------------------------------------------
\* close_card and reopen_card

\* CloseRejected without the test for a card that is closed already
CloseRejected_NoStatusCheck(c, close_date) ==
    c.open_date # NoDate /\ close_date < c.open_date

\* the two ValueErrors close_card raises before it writes anything
CloseRejected(c, close_date) ==
    \/ c.status = "closed"
    \/ (c.open_date # NoDate /\ close_date < c.open_date)

CloseCard(close_date) ==
    /\ card.id # 0
    /\ LET rejected == CloseRejected(card, close_date)
       IN  /\ card' = IF rejected THEN card
                      ELSE [card EXCEPT !.status = "closed",
                                        !.close_date = close_date,
                                        !.annual_fee_date = NoDate]
           /\ last' = Request("close", ~rejected, IF rejected THEN NoDate ELSE close_date,
                              NoDate, FALSE)
    /\ UNCHANGED <<events, benefits, categories, others, summary, today, served,
                   returned>>

\* reopen_card queries for a row on the anniversary before adding one
HoldsEvent(evs, d) == \E e \in BagToSet(evs) : e.event_date = d

\* ReopenEvents without the query for an existing row
ReopenEvents_NoQuery(evs, c, td) ==
    WalkEvents(c.open_date, td, c.template_id, c.annual_fee)

\* the rows the reopen walk adds to evs
ReopenEvents(evs, c, td) ==
    SetToBag({ e \in BagToSet(WalkEvents(c.open_date, td, c.template_id, c.annual_fee)) :
                 ~HoldsEvent(evs, e.event_date) })

ReopenCard ==
    /\ card.id # 0
    /\ LET rejected == card.status # "closed"
           restore == card.open_date # NoDate /\ HasFee(card.annual_fee)
       IN  /\ card' = IF rejected THEN card
                      ELSE [card EXCEPT !.status = "active",
                                        !.close_date = NoDate,
                                        !.annual_fee_date =
                                            IF restore THEN WalkEnd(card.open_date, today)
                                            ELSE @]
           /\ events' = IF ~rejected /\ restore
                        THEN events (+) ReopenEvents(events, card, today)
                        ELSE events
           /\ last' = Request("reopen", ~rejected, NoDate, NoDate, FALSE)
    /\ UNCHANGED <<benefits, categories, others, summary, today, served,
                   returned>>

----------------------------------------------------------------------------
\* product_change

\* the rows of evs that satisfy Keep
BagFilter(evs, Keep(_)) ==
    [e \in {x \in DOMAIN evs : Keep(x)} |-> evs[e]]

\* DeleteFutureApprox without the test of the approximate_date flag
DeleteFutureApprox_AnyKind(evs, change_date) ==
    LET Keep(e) == ~(e.event_date > change_date)
    IN  BagFilter(evs, Keep)

\* _recalculate_af_events_after_change, first half: the approximate rows
\* dated after change_date are deleted
DeleteFutureApprox(evs, change_date) ==
    LET Keep(e) == ~(e.event_date > change_date /\ e.approximate_date)
    IN  BagFilter(evs, Keep)

\* ChangeDateEvents with the row flagged as an exact one
ChangeDateEvents_Exact(annual_fee, change_date) ==
    IF HasFee(annual_fee)
    THEN SetToBag({AfEvent(change_date, annual_fee, FALSE)})
    ELSE EmptyBag

\* the row product_change adds at change_date for the card's fee
ChangeDateEvents(annual_fee, change_date) ==
    IF HasFee(annual_fee)
    THEN SetToBag({AfEvent(change_date, annual_fee, TRUE)})
    ELSE EmptyBag

\* where the re-walk after a product change begins
RewalkStart(change_date) == AddYears(change_date, 1)

\* RewalkEvents that keeps the open-date anniversaries after the change date
RewalkEvents_FromOpen(c, change_date, td) ==
    IF HasFee(c.annual_fee) /\ c.open_date # NoDate
    THEN BagFilter(WalkEvents(c.open_date, td, c.template_id, c.annual_fee),
                   LAMBDA e : e.event_date > change_date)
    ELSE EmptyBag

\* _recalculate_af_events_after_change, second half: the rows the re-walk adds
RewalkEvents(c, change_date, td) ==
    IF HasFee(c.annual_fee)
    THEN WalkEvents(RewalkStart(change_date), td, c.template_id, c.annual_fee)
    ELSE EmptyBag

\* RewalkDueDate that keeps the old due date when the fee is gone
RewalkDueDate_Keep(c, change_date, td) ==
    IF HasFee(c.annual_fee) THEN WalkEnd(RewalkStart(change_date), td)
    ELSE c.annual_fee_date

\* annual_fee_date _recalculate_af_events_after_change leaves
RewalkDueDate(c, change_date, td) ==
    IF HasFee(c.annual_fee) THEN WalkEnd(RewalkStart(change_date), td)
    ELSE NoDate

\* ChangedCard that clears the due date when the card is left without a fee
ChangedCard_ClearDueDate(c, new_template_id, new_annual_fee) ==
    LET fee == IF new_annual_fee # NoFee THEN new_annual_fee ELSE c.annual_fee
    IN  [c EXCEPT !.template_id = new_template_id,
                  !.annual_fee_user_modified = FALSE,
                  !.template_version_id =
                      IF new_template_id # NoTemplate
                      THEN (IF HasTemplate(new_template_id)
                            THEN get_template(new_template_id).version_id ELSE @)
                      ELSE NoVersion,
                  !.annual_fee = fee,
                  !.annual_fee_date = IF fee = NoFee \/ fee = 0 THEN NoDate ELSE @]

\* the card fields product_change writes before it touches the events
ChangedCard(c, new_template_id, new_annual_fee) ==
    [c EXCEPT !.template_id = new_template_id,
              !.annual_fee_user_modified = FALSE,
              !.template_version_id =
                  IF new_template_id # NoTemplate
                  THEN (IF HasTemplate(new_template_id)
                        THEN get_template(new_template_id).version_id ELSE @)
                  ELSE NoVersion,
              !.annual_fee = IF new_annual_fee # NoFee THEN new_annual_fee ELSE @]

\* ChangeRejected without the comparison of change_date with open_date
ChangeRejected_NoDateCheck(c, new_template_id, change_date) ==
    \/ c.status = "closed"
    \/ (new_template_id # NoTemplate /\ new_template_id = c.template_id)

\* the three ValueErrors product_change raises before it writes anything
ChangeRejected(c, new_template_id, change_date) ==
    \/ c.status = "closed"
    \/ (new_template_id # NoTemplate /\ new_template_id = c.template_id)
    \/ (c.open_date # NoDate /\ change_date < c.open_date)

ProductChange(new_template_id, change_date, new_annual_fee, reset_af_anniversary, sync_benefits) ==
    /\ card.id # 0
    /\ served < MaxRequests
    /\ LET rejected == ChangeRejected(card, new_template_id, change_date)
           c == ChangedCard(card, new_template_id, new_annual_fee)
       IN  /\ card' = IF rejected THEN card
                      ELSE IF reset_af_anniversary
                      THEN [c EXCEPT !.annual_fee_date =
                                         RewalkDueDate(c, change_date, today)]
                      ELSE c
           /\ events' = IF rejected \/ ~reset_af_anniversary THEN events
                        ELSE DeleteFutureApprox(
                                 events (+) ChangeDateEvents(c.annual_fee, change_date),
                                 change_date)
                             (+) RewalkEvents(c, change_date, today)
           /\ last' = Request("product_change", ~rejected,
                              IF rejected THEN NoDate ELSE change_date, NoDate,
                              ~rejected /\ reset_af_anniversary)
           /\ benefits' = IF rejected \/ ~sync_benefits THEN benefits
                          ELSE _sync_benefits_for_product_change(c, benefits, today)
    /\ served' = served + 1
    /\ UNCHANGED <<categories, others, summary, today, returned>>

----------------------------------------------------------------------------
\* update_card

\* the fields a CardUpdate request can set (model_dump(exclude_unset=True))
UpdateFields == {"open_date", "annual_fee", "annual_fee_date", "template_id"}

\* the card after the setattr loop and the two annual_fee rules
UpdatedFields(c, fields, data) ==
    LET set == [c EXCEPT
                  !.open_date = IF "open_date" \in fields THEN data.open_date ELSE @,
                  !.annual_fee = IF "annual_fee" \in fields THEN data.annual_fee ELSE @,
                  !.annual_fee_date = IF "annual_fee_date" \in fields
                                      THEN data.annual_fee_date ELSE @,
                  !.template_id = IF "template_id" \in fields
                                  THEN data.template_id ELSE @]
    IN  [set EXCEPT
           !.annual_fee_date =
               IF "annual_fee" \in fields /\ (set.annual_fee = NoFee \/ set.annual_fee = 0)
               THEN NoDate ELSE @,
           !.annual_fee_user_modified = IF "annual_fee" \in fields THEN TRUE ELSE @]

\* the condition under which update_card runs the backfill walk
Backfill(old_open_date, c, evs) ==
    /\ old_open_date = NoDate /\ c.open_date # NoDate /\ HasFee(c.annual_fee)
    /\ evs = EmptyBag

UpdateCard(fields, data) ==
    /\ card.id # 0
    /\ served < MaxRequests
    /\ LET c == UpdatedFields(card, fields, data)
           backfill == Backfill(card.open_date, c, events)
       IN  /\ card' = IF backfill /\ c.annual_fee_date = NoDate
                      THEN [c EXCEPT !.annual_fee_date = WalkEnd(c.open_date, today)]
                      ELSE c
           /\ events' = IF backfill
                        THEN events (+) WalkEvents(c.open_date, today, c.template_id,
                                                   c.annual_fee)
                        ELSE events
           /\ last' = Request("update", TRUE, NoDate, NoDate, FALSE)
    /\ served' = served + 1
    /\ UNCHANGED <<benefits, categories, others, summary, today, returned>>

----------------------------------------------------------------------------
\* routers/events.py

\* POST /cards/{id}/events with event_type annual_fee_posted and a metadata_json
\* without approximate_date: a user-entered (exact) row
UserEvents(evs) == BagFilter(evs, LAMBDA e : ~e.approximate_date)

CreateEvent(event_date, annual_fee) ==
    /\ card.id # 0
    /\ served < MaxRequests
    /\ events' = events (+) SetToBag({AfEvent(event_date, annual_fee, FALSE)})
    /\ last' = Request("create_event", TRUE, event_date, NoDate, FALSE)
    /\ served' = served + 1
    /\ UNCHANGED <<card, benefits, categories, others, summary, today,
                   returned>>

\* PUT /events/{id} that moves a row to another date
UpdateEvent(event, event_date) ==
    /\ card.id # 0
    /\ served < MaxRequests
    /\ BagIn(event, events)
    /\ events' = (events (-) SetToBag({event}))
                  (+) SetToBag({[event EXCEPT !.event_date = event_date]})
    /\ last' = Request("update_event", TRUE, event_date, NoDate, FALSE)
    /\ served' = served + 1
    /\ UNCHANGED <<card, benefits, categories, others, summary, today,
                   returned>>

\* DELETE /events/{id}
DeleteEvent(event) ==
    /\ card.id # 0
    /\ served < MaxRequests
    /\ BagIn(event, events)
    /\ events' = events (-) SetToBag({event})
    /\ last' = Request("delete_event", TRUE, event.event_date, NoDate, FALSE)
    /\ served' = served + 1
    /\ UNCHANGED <<card, benefits, categories, others, summary, today,
                   returned>>

----------------------------------------------------------------------------
\* services/benefit_service.py and routers/bonus_categories.py

\* the rows the user has added
UserEdits(bs, cs) ==
    Cardinality({i \in 1..Len(bs) : ~bs[i].from_template})
    + Cardinality({i \in 1..Len(cs) : ~cs[i].from_template})

\* create_benefit: a custom row, from_template left at its default False
CreateBenefit(benefit_name, benefit_type, benefit_amount, frequency, reset_type) ==
    /\ card.id # 0
    /\ UserEdits(benefits, categories) < MaxEdits
    /\ benefits' = Append(benefits,
                      CardBenefit(benefit_name, benefit_amount, frequency, reset_type,
                                  benefit_type, FALSE, NoNotes,
                                  get_current_period(frequency, reset_type,
                                                     card.open_date, today)[1]))
    /\ last' = Request("create_benefit", TRUE, NoDate, NoDate, FALSE)
    /\ UNCHANGED <<card, events, categories, others, summary, today, served,
                   returned>>

\* create_bonus_category: a custom row, from_template = False
CreateBonusCategory(category, multiplier, portal_only, cap) ==
    /\ card.id # 0
    /\ UserEdits(benefits, categories) < MaxEdits
    /\ categories' = Append(categories,
                        CardBonusCategory(category, multiplier, portal_only, cap, FALSE))
    /\ last' = Request("create_bonus_category", TRUE, NoDate, NoDate, FALSE)
    /\ UNCHANGED <<card, events, benefits, others, summary, today, served,
                   returned>>

----------------------------------------------------------------------------
\* sync_cards_to_templates

\* the cards table in id order: the followed card, then the other cards
FleetOf(c, bs, cs, os) ==
    (IF c.id # 0 THEN << Bundle(c, bs, cs) >> ELSE << >>) \o os

Fleet == FleetOf(card, benefits, categories, others)

\* One run of sync_cards_to_templates.  raised = 0 is a run that reaches
\* db.commit(); raised = k is a run in which reconciling the k-th card raises:
\* the loop has no handler, the exception leaves the function before
\* db.commit() and the session is closed with its pending changes.
Sync(raised) ==
    /\ raised \in 0..Len(Fleet)
    /\ raised # 0 => Reconciled(Fleet[raised])
    /\ LET after == IF raised = 0
                    THEN [i \in 1..Len(Fleet) |-> SyncedBundle(Fleet[i], today)]
                    ELSE Fleet
           followed == IF card.id # 0 THEN 1 ELSE 0
       IN  /\ card' = IF card.id # 0 THEN after[1].card ELSE card
           /\ benefits' = IF card.id # 0 THEN after[1].benefits ELSE benefits
           /\ categories' = IF card.id # 0 THEN after[1].categories ELSE categories
           /\ others' = [i \in 1..Len(others) |-> after[followed + i]]
    /\ summary' = IF raised = 0 THEN SummaryOfAll(Fleet) ELSE summary
    /\ last' = Request("sync", raised = 0, NoDate, NoDate, FALSE)
    /\ UNCHANGED <<events, today, served, returned>>

----------------------------------------------------------------------------
\* services/benefit_service.py: reads and writes of benefit rows

\* _refresh_period that keeps amount_used when it moves period_start
_refresh_period_KeepUsage(benefit, card_open_date, td) ==
    LET period_start == get_current_period(benefit.frequency, benefit.reset_type,
                                           card_open_date, td)[1]
    IN  IF benefit.retired THEN benefit
        ELSE IF benefit.period_start = NoDate \/ benefit.period_start < period_start
        THEN [benefit EXCEPT !.period_start = period_start]
        ELSE benefit

\* _refresh_period that moves period_start whenever it differs from the start
\* of the current period
_refresh_period_AnyChange(benefit, card_open_date, td) ==
    LET period_start == get_current_period(benefit.frequency, benefit.reset_type,
                                           card_open_date, td)[1]
    IN  IF benefit.retired THEN benefit
        ELSE IF benefit.period_start # period_start
        THEN [benefit EXCEPT !.amount_used = 0, !.period_start = period_start]
        ELSE benefit

\* _refresh_period: a row that is not retired and whose period_start is unset
\* or before the start of the current period starts the current period anew
_refresh_period(benefit, card_open_date, td) ==
    LET period_start == get_current_period(benefit.frequency, benefit.reset_type,
                                           card_open_date, td)[1]
    IN  IF benefit.retired THEN benefit
        ELSE IF benefit.period_start = NoDate \/ benefit.period_start < period_start
        THEN [benefit EXCEPT !.amount_used = 0, !.period_start = period_start]
        ELSE benefit

\* _benefit_to_out: the columns of the row and the end of the current period
\* (days_until_reset and reset_label are derived from period_end and left out)
_benefit_to_out(benefit, card_open_date, td) ==
    [benefit_name |-> benefit.benefit_name,
     benefit_amount |-> benefit.benefit_amount,
     frequency |-> benefit.frequency, reset_type |-> benefit.reset_type,
     benefit_type |-> benefit.benefit_type,
     from_template |-> benefit.from_template, retired |-> benefit.retired,
     notes |-> benefit.notes, amount_used |-> benefit.amount_used,
     period_start |-> benefit.period_start,
     period_end |-> get_current_period(benefit.frequency, benefit.reset_type,
                                       card_open_date, td)[2]]

\* the rows of a card after the loop of list_benefits
RefreshedRows(bs, card_open_date, td) ==
    [i \in 1..Len(bs) |-> _refresh_period(bs[i], card_open_date, td)]

\* GET /cards/{id}/benefits
ListBenefits ==
    /\ card.id # 0
    /\ benefits' = RefreshedRows(benefits, card.open_date, today)
    /\ returned' = [i \in 1..Len(benefits) |->
                       _benefit_to_out(benefits'[i], card.open_date, today)]
    /\ last' = Request("list_benefits", TRUE, NoDate, NoDate, FALSE)
    /\ UNCHANGED <<card, events, categories, others, summary, today, served>>

\* the rows list_all_benefits selects from one card: none of a card that is
\* not active, the non-retired ones otherwise
SummaryRows(b) ==
    IF b.card.status # "active" THEN << >>
    ELSE SelectSeq(b.benefits, LAMBDA benefit : ~benefit.retired)

\* the card after list_all_benefits: the selected rows are refreshed
SummaryRefreshed(b, td) ==
    IF b.card.status # "active" THEN b
    ELSE [b EXCEPT !.benefits =
            [i \in 1..Len(b.benefits) |->
                IF b.benefits[i].retired THEN b.benefits[i]
                ELSE _refresh_period(b.benefits[i], b.card.open_date, td)]]

\* the response of list_all_benefits, card by card
RECURSIVE SummaryItems(_, _)
SummaryItems(fleet, td) ==
    IF fleet = << >> THEN << >>
    ELSE LET b == SummaryRefreshed(Head(fleet), td)
             rows == SummaryRows(b)
         IN  [i \in 1..Len(rows) |-> _benefit_to_out(rows[i], b.card.open_date, td)]
             \o SummaryItems(Tail(fleet), td)

\* GET /benefits
ListAllBenefits ==
    /\ LET after == [i \in 1..Len(Fleet) |-> SummaryRefreshed(Fleet[i], today)]
           followed == IF card.id # 0 THEN 1 ELSE 0
       IN  /\ benefits' = IF card.id # 0 THEN after[1].benefits ELSE benefits
           /\ others' = [i \in 1..Len(others) |-> after[followed + i]]
    /\ returned' = SummaryItems(Fleet, today)
    /\ last' = Request("list_all_benefits", TRUE, NoDate, NoDate, FALSE)
    /\ UNCHANGED <<card, events, categories, summary, today, served>>

\* PUT /cards/{id}/benefits/{benefit_id}/usage
UpdateUsage(i, amount_used) ==
    /\ card.id # 0
    /\ served < MaxRequests
    /\ i \in 1..Len(benefits)
    /\ benefits' = [benefits EXCEPT ![i] =
                       [_refresh_period(@, card.open_date, today)
                          EXCEPT !.amount_used = amount_used]]
    /\ returned' = << _benefit_to_out(benefits'[i], card.open_date, today) >>
    /\ last' = Request("update_usage", TRUE, NoDate, NoDate, FALSE)
    /\ served' = served + 1
    /\ UNCHANGED <<card, events, categories, others, summary, today>>

\* the fields a CardBenefitUpdate request can set in the model
BenefitFields == {"benefit_amount", "frequency", "reset_type"}

\* the row after the setattr loop and the recomputation of update_benefit
UpdatedBenefit(benefit, fields, data, card_open_date, td) ==
    LET set == [benefit EXCEPT
                  !.benefit_amount = IF "benefit_amount" \in fields
                                     THEN data.benefit_amount ELSE @,
                  !.frequency = IF "frequency" \in fields THEN data.frequency ELSE @,
                  !.reset_type = IF "reset_type" \in fields
                                 THEN data.reset_type ELSE @]
    IN  IF "frequency" \in fields \/ "reset_type" \in fields
        THEN [set EXCEPT
                !.period_start = get_current_period(set.frequency, set.reset_type,
                                                    card_open_date, td)[1],
                !.amount_used = 0]
        ELSE set

\* PUT /cards/{id}/benefits/{benefit_id}
UpdateBenefit(i, fields, data) ==
    /\ card.id # 0
    /\ served < MaxRequests
    /\ i \in 1..Len(benefits)
    /\ benefits' = [benefits EXCEPT ![i] =
                       UpdatedBenefit(@, fields, data, card.open_date, today)]
    /\ returned' = << _benefit_to_out(benefits'[i], card.open_date, today) >>
    /\ last' = Request("update_benefit", TRUE, NoDate, NoDate, FALSE)
    /\ served' = served + 1
    /\ UNCHANGED <<card, events, categories, others, summary, today>>

----------------------------------------------------------------------------
\* Requests the model draws

CreateTemplates == {NoTemplate, "plat", "free"}
ChangeTemplates == {NoTemplate, "plat"}
Statuses == {"active"}

UpdateRequests ==
    {[fields |-> {"open_date"}, open_date |-> d, annual_fee |-> NoFee,
      annual_fee_date |-> NoDate, template_id |-> NoTemplate] :
        d \in OpenDates \cup {NoDate}}
    \cup
    {[fields |-> {"annual_fee"}, open_date |-> NoDate, annual_fee |-> f,
      annual_fee_date |-> NoDate, template_id |-> NoTemplate] :
        f \in {0, 95}}
    \cup
    {[fields |-> {"open_date", "annual_fee"}, open_date |-> d, annual_fee |-> 95,
      annual_fee_date |-> NoDate, template_id |-> NoTemplate] :
        d \in OpenDates}

Next ==
    \/ Tick
    \/ \E t \in CreateTemplates, s \in Statuses, o \in OpenDates \cup {NoDate},
          f \in CreateFees, a \in DueDates \cup {NoDate} :
          CreateCard(t, s, o, NoDate, f, a)
    \/ \E d \in CloseDates : CloseCard(d)
    \/ ReopenCard
    \/ \E t \in ChangeTemplates, d \in ChangeDates, f \in ChangeFees, r \in BOOLEAN :
          ProductChange(t, d, f, r, FALSE)
    \/ \E u \in UpdateRequests : UpdateCard(u.fields, u)
    \/ \E d \in EventDates, f \in EventFees : CreateEvent(d, f)

Spec == Init /\ [][Next]_vars

\* The event endpoints on a card with a fee schedule: rows are added, moved
\* and deleted by the user while time passes.
LedgerDates == {20240615, 20250615}

EventNext ==
    \/ Tick
    \/ \E o \in OpenDates, f \in {95} :
          CreateCard(NoTemplate, "active", o, NoDate, f, NoDate)
    \/ \E d \in LedgerDates, f \in EventFees : CreateEvent(d, f)
    \/ \E e \in BagToSet(events), d \in LedgerDates : UpdateEvent(e, d)
    \/ \E e \in BagToSet(events) : DeleteEvent(e)

EventSpec == Init /\ [][EventNext]_vars

\* The reconciler: a card is created, edited by its user, moved between
\* templates, closed and reopened, and sync_cards_to_templates runs over it
\* and over the other cards of the database.

\* The cards the database already holds beside the followed one.

\* a card stamped with an earlier version of its template: its template-owned
\* rows are the ones that version listed
StaleCard ==
    Bundle([id |-> 3, status |-> "active", open_date |-> 20230615,
            close_date |-> NoDate, annual_fee |-> 695, annual_fee_date |-> 20250615,
            annual_fee_user_modified |-> FALSE, template_id |-> "plat",
            template_version_id |-> OldVersions.plat[1].version_id],
           << [CardBenefit("uber", 10, "monthly", "calendar", "credit", TRUE,
                           NoNotes, 20250601) EXCEPT !.amount_used = 4],
              CardBenefit("saks", 50, "semi_annual", "calendar", "credit", TRUE,
                          NoNotes, 20250101),
              [CardBenefit("lounge", 30, "annual", "calendar", "credit", FALSE,
                           "two visits", 20250101) EXCEPT !.amount_used = 1] >>,
           << CardBonusCategory("dining", "3x", FALSE, NoCap, TRUE),
              CardBonusCategory("transit", "2x", FALSE, NoCap, TRUE),
              CardBonusCategory("shops", "2x", FALSE, NoCap, FALSE) >>)

\* the same card after close_card
ClosedCard ==
    [StaleCard EXCEPT !.card = [@ EXCEPT !.id = 2, !.status = "closed",
                                         !.close_date = 20250101,
                                         !.annual_fee_date = NoDate]]

\* a card from before versioning: a template id, no stored version, rows the
\* user entered by hand
LegacyCard ==
    Bundle([id |-> 4, status |-> "active", open_date |-> 20230615,
            close_date |-> NoDate, annual_fee |-> 550, annual_fee_date |-> 20250615,
            annual_fee_user_modified |-> FALSE, template_id |-> "plat",
            template_version_id |-> NoVersion],
           << [CardBenefit("uber", 12, "monthly", "calendar", "credit", FALSE,
                           NoNotes, 20250601) EXCEPT !.amount_used = 5],
              CardBenefit("nights", 60, "annual", "calendar", "credit", FALSE,
                          NoNotes, 20250101),
              CardBenefit("lounge", 30, "annual", "calendar", "credit", FALSE,
                          NoNotes, 20250101) >>,
           << CardBonusCategory("dining", "3x", FALSE, NoCap, FALSE),
              CardBonusCategory("shops", "2x", FALSE, NoCap, FALSE) >>)

\* a card of a template without a version id, and a card whose template is
\* not in the catalog
UnversionedCard ==
    [LegacyCard EXCEPT !.card = [@ EXCEPT !.id = 5, !.template_id = "basic"]]

MissingCard ==
    [StaleCard EXCEPT !.card = [@ EXCEPT !.id = 6, !.template_id = "gone"]]

\* a card without a template
CustomCard ==
    [LegacyCard EXCEPT !.card = [@ EXCEPT !.id = 7, !.template_id = NoTemplate]]

OtherCards ==
    << ClosedCard, StaleCard, LegacyCard, UnversionedCard, MissingCard, CustomCard >>

SyncInit ==
    /\ card = NoCard
    /\ events = EmptyBag
    /\ benefits = << >>
    /\ categories = << >>
    /\ others = OtherCards
    /\ summary = NoSummary
    /\ today = 20250615
    /\ last = NoRequest
    /\ served = 0
    /\ returned = << >>

SyncTemplates == {NoTemplate, "plat"}
SyncOpenDates == {20240229}

\* close and change dates: one before the open date, one after it
SyncDates == {20240101, 20250101}

SyncUpdates ==
    {[fields |-> {"template_id"}, open_date |-> NoDate, annual_fee |-> NoFee,
      annual_fee_date |-> NoDate, template_id |-> t] : t \in {"free", "cash"}}
    \cup
    {[fields |-> {"annual_fee"}, open_date |-> NoDate, annual_fee |-> 120,
      annual_fee_date |-> NoDate, template_id |-> NoTemplate]}

SyncNext ==
    \/ \E t \in SyncTemplates, o \in SyncOpenDates :
          CreateCard(t, "active", o, NoDate, 95, NoDate)
    \/ \E u \in SyncUpdates : UpdateCard(u.fields, u)
    \/ \E d \in SyncDates : CloseCard(d)
    \/ ReopenCard
    \/ \E d \in SyncDates, sync_benefits \in BOOLEAN :
          ProductChange("free", d, NoFee, FALSE, sync_benefits)
    \/ CreateBenefit("uber", "credit", 20, "annual", "calendar")
    \/ CreateBonusCategory("dining", "2x", FALSE, NoCap)
    \/ \E k \in 0..Len(Fleet) : Sync(k)

SyncSpec == SyncInit /\ [][SyncNext]_vars

----------------------------------------------------------------------------
\* The benefit endpoints on a card that holds benefit rows, with the summary
\* over the other cards, while time passes.

\* a card opened on a 31st and stamped with an earlier template version: a
\* monthly credit last touched in May, a credit of the current month that the
\* current template version lists as annual by card year, a retired credit of an earlier half-year with usage on
\* it, and a custom row without a period_start
BenefitCard ==
    Bundle([id |-> 1, status |-> "active", open_date |-> 20240131,
            close_date |-> NoDate, annual_fee |-> NoFee, annual_fee_date |-> NoDate,
            annual_fee_user_modified |-> FALSE, template_id |-> "plat",
            template_version_id |-> OldVersions.plat[1].version_id],
           << [CardBenefit("uber", 10, "monthly", "calendar", "credit", TRUE,
                           NoNotes, 20250501) EXCEPT !.amount_used = 4],
              [CardBenefit("clear", 100, "monthly", "calendar", "credit", TRUE,
                           NoNotes, 20250601) EXCEPT !.amount_used = 3],
              [CardBenefit("saks", 50, "semi_annual", "calendar", "credit", TRUE,
                           NoNotes, 20240701) EXCEPT !.amount_used = 20,
                                                     !.retired = TRUE],
              [CardBenefit("lounge", 30, "annual", "calendar", "credit", FALSE,
                           "two visits", NoDate) EXCEPT !.amount_used = 1] >>,
           << >>)

BenefitInit ==
    /\ card = BenefitCard.card
    /\ events = EmptyBag
    /\ benefits = BenefitCard.benefits
    /\ categories = BenefitCard.categories
    /\ others = << LegacyCard, ClosedCard >>
    /\ summary = NoSummary
    /\ today = 20250615
    /\ last = NoRequest
    /\ served = 0
    /\ returned = << >>

\* the requests the benefit endpoints are given
UsageAmounts == {7}

\* the rows the write requests address: a credit and the retired one
WrittenRows == {2, 3}

BenefitUpdates ==
    {[fields |-> {"frequency"}, benefit_amount |-> 0, frequency |-> "annual",
      reset_type |-> "calendar"],
     [fields |-> {"reset_type"}, benefit_amount |-> 0, frequency |-> "annual",
      reset_type |-> "cardiversary"],
     [fields |-> {"benefit_amount"}, benefit_amount |-> 25, frequency |-> "annual",
      reset_type |-> "calendar"]}

BenefitOpenDates == {20240615}

BenefitNext ==
    \/ Tick
    \/ ListBenefits
    \/ ListAllBenefits
    \/ \E i \in WrittenRows, a \in UsageAmounts : UpdateUsage(i, a)
    \/ \E i \in WrittenRows, u \in BenefitUpdates : UpdateBenefit(i, u.fields, u)
    \/ \E d \in BenefitOpenDates :
          UpdateCard({"open_date"},
                     [open_date |-> d, annual_fee |-> NoFee,
                      annual_fee_date |-> NoDate, template_id |-> NoTemplate])
    \/ Sync(0)

BenefitSpec == BenefitInit /\ [][BenefitNext]_vars

----------------------------------------------------------------------------
\* Vocabulary of the properties

\* the k-th date reached from start by adding one year k times
RECURSIVE Anniv(_, _)
Anniv(start, k) == IF k = 0 THEN start ELSE AddYears(Anniv(start, k - 1), 1)

\* enough steps to pass td from start
Steps(start, td) == IF td < start THEN 1 ELSE Year(td) - Year(start) + 1

\* the anniversaries of start numbered first and later that are <= td
AnnivUpTo(start, first, td) ==
    {d \in {Anniv(start, k) : k \in first..Steps(start, td)} : d <= td}

\* the earliest anniversary of start numbered first or later that is > td
NextAnniv(start, first, td) ==
    SetMin({d \in {Anniv(start, k) : k \in first..(Steps(start, td) + 1)} : d > td})

\* the fee the Fee Timeline Resolver gives for a year: the fee of the latest
\* timeline year <= year, else the fee of the earliest timeline year
ResolverFee(timeline, year) ==
    LET known == DOMAIN timeline
        upto == {y \in known : y <= year}
    IN  IF upto # {} THEN timeline[CHOOSE y \in upto : \A z \in upto : z <= y]
        ELSE timeline[CHOOSE y \in known : \A z \in known : y <= z]

\* the fee an anniversary in `year` carries for a card
ExpectedFee(template_id, year, annual_fee) ==
    IF template_id # NoTemplate /\ DOMAIN _build_fee_timeline(template_id) # {}
    THEN ResolverFee(_build_fee_timeline(template_id), year)
    ELSE annual_fee

\* one approximate row on each date of D, with the fee of that date's year
ExpectedRows(D, template_id, annual_fee) ==
    SetToBag({AfEvent(d, ExpectedFee(template_id, Year(d), annual_fee), TRUE) : d \in D})

RowsOn(evs, d) == BagFilter(evs, LAMBDA e : e.event_date = d)
RowsAfter(evs, d) == BagFilter(evs, LAMBDA e : e.event_date > d)
ApproxRows(evs) == BagFilter(evs, LAMBDA e : e.approximate_date)
SameBag(a, b) == \A e \in DOMAIN a \cup DOMAIN b : CopiesIn(e, a) = CopiesIn(e, b)

\* no two rows of one kind on one date
NoDuplicateKind(evs) ==
    \A d \in {e.event_date : e \in DOMAIN evs} :
        /\ BagCardinality(ApproxRows(RowsOn(evs, d))) <= 1
        /\ BagCardinality(UserEvents(RowsOn(evs, d))) <= 1

\* the step just taken served `op` and accepted it
Served(op) == last'.op = op /\ last'.ok

SchedulerOps == {"create", "update", "close", "reopen", "product_change"}

\* an accepted product change with the anniversary reset on
ChangeStep == Served("product_change") /\ last'.reset

----------------------------------------------------------------------------
\* Properties of the scheduler

\* C1: a scheduler transition (creation walk, open_date backfill, product
\* change, close, reopen) taken from a ledger without two annual_fee_posted
\* rows of one kind on one date leaves a ledger without such a pair.
C1_NoDuplicateKindDate ==
    [][(last'.op \in SchedulerOps /\ NoDuplicateKind(events))
          => NoDuplicateKind(events')]_vars

\* C2: no engine transition deletes or alters an exact fee event: every exact
\* row present before the transition is present after it, with the same date
\* and fee, rows dated after a product-change date included.
C2_ExactEventsKept ==
    [][last'.op \in SchedulerOps
          => \A e \in DOMAIN events :
                ~e.approximate_date => CopiesIn(e, events') >= CopiesIn(e, events)]_vars

\* an exact row dated after the change date survived a product change
C2_Witness ==
    /\ last.op = "product_change" /\ last.ok /\ last.reset
    /\ \E e \in DOMAIN events : ~e.approximate_date /\ e.event_date > last.date
    /\ \E e \in DOMAIN events : e.approximate_date /\ e.event_date > last.date

C5_ExactChangeEvent ==
    [][ChangeStep
          => IF HasFee(card'.annual_fee)
             THEN /\ CopiesIn(AfEvent(last'.date, card'.annual_fee, FALSE), events')
                       = CopiesIn(AfEvent(last'.date, card'.annual_fee, FALSE), events) + 1
                  /\ BagCardinality(RowsOn(events', last'.date))
                       = BagCardinality(RowsOn(events, last'.date)) + 1
             ELSE SameBag(RowsOn(events', last'.date), RowsOn(events, last'.date))]_vars

\* C5 amended: a product change with the anniversary reset on adds exactly one
\* approximate row dated change_date with the card's new fee when that fee
\* is > 0, and no row at change_date when it is 0.
C5_ApproxChangeEvent ==
    [][ChangeStep
          => IF HasFee(card'.annual_fee)
             THEN /\ CopiesIn(AfEvent(last'.date, card'.annual_fee, TRUE), events')
                       = CopiesIn(AfEvent(last'.date, card'.annual_fee, TRUE), events) + 1
                  /\ BagCardinality(RowsOn(events', last'.date))
                       = BagCardinality(RowsOn(events, last'.date)) + 1
             ELSE SameBag(RowsOn(events', last'.date), RowsOn(events, last'.date))]_vars

\* a product change to a fee > 0 left its row on the change date
C5_Witness ==
    /\ last.op = "product_change" /\ last.ok /\ last.reset
    /\ HasFee(card.annual_fee)
    /\ BagIn(AfEvent(last.date, card.annual_fee, TRUE), events)

C8_RewalkSkipsHeldDates ==
    [][(ChangeStep /\ HasFee(card'.annual_fee))
          => \A d \in AnnivUpTo(last'.date, 1, today) :
                UserEvents(RowsOn(events, d)) # EmptyBag
                    => SameBag(RowsOn(events', d), UserEvents(RowsOn(events, d)))]_vars

\* C9: after an accepted close at close_date no approximate row dated after
\* close_date remains, every row dated <= close_date is retained, status is
\* closed with close_date set, and annual_fee_date is null.
C9_CloseCleansUp ==
    [][Served("close")
          => /\ ApproxRows(RowsAfter(events', last'.date)) = EmptyBag
             /\ \A e \in DOMAIN events :
                   e.event_date <= last'.date
                       => CopiesIn(e, events') >= CopiesIn(e, events)
             /\ card'.status = "closed" /\ card'.close_date = last'.date
             /\ card'.annual_fee_date = NoDate]_vars

\* C10: an accepted reopen of a card with open_date and annual_fee > 0 adds one
\* approximate row on exactly the open_date anniversaries <= today that held no
\* fee event, adds nothing anywhere else, never leaves two rows on an
\* anniversary that held at most one, and sets annual_fee_date to the first
\* open_date anniversary after today.
C10_ReopenRefill ==
    [][(Served("reopen") /\ card.open_date # NoDate /\ HasFee(card.annual_fee))
          => /\ \A d \in AnnivUpTo(card.open_date, 0, today) :
                   IF HoldsEvent(events, d)
                   THEN SameBag(RowsOn(events', d), RowsOn(events, d))
                   ELSE /\ BagCardinality(RowsOn(events', d)) = 1
                        /\ \A e \in DOMAIN RowsOn(events', d) : e.approximate_date
             /\ \A e \in DOMAIN events' :
                   e.event_date \notin AnnivUpTo(card.open_date, 0, today)
                       => CopiesIn(e, events') = CopiesIn(e, events)
             /\ \A d \in AnnivUpTo(card.open_date, 0, today) :
                   BagCardinality(RowsOn(events, d)) <= 1
                       => BagCardinality(RowsOn(events', d)) <= 1
             /\ card'.annual_fee_date = NextAnniv(card.open_date, 0, today)]_vars

\* a reopened card has an anniversary that holds only a user-entered row and
\* another one that holds an approximate row
C10_Witness ==
    /\ last.op = "reopen" /\ last.ok
    /\ card.open_date # NoDate /\ HasFee(card.annual_fee)
    /\ \E d \in AnnivUpTo(card.open_date, 0, today) :
          /\ UserEvents(RowsOn(events, d)) # EmptyBag
          /\ ApproxRows(RowsOn(events, d)) = EmptyBag
    /\ \E d \in AnnivUpTo(card.open_date, 0, today) :
          ApproxRows(RowsOn(events, d)) # EmptyBag

----------------------------------------------------------------------------
\* Properties of the event endpoints

EventOps == {"create_event", "update_event", "delete_event"}

\* the dates of the rows of a ledger, and the latest of them
EventDatesOf(evs) == {e.event_date : e \in BagToSet(evs)}
LatestDate(evs) == SetMax(EventDatesOf(evs))

\* TRUE when the latest-dated rows of the ledger are exact ones
LatestIsExact(evs) ==
    /\ evs # EmptyBag
    /\ \A e \in BagToSet(evs) : e.event_date = LatestDate(evs) => ~e.approximate_date

\* C11: after a fee event is added, edited or deleted through the event
\* endpoints, annual_fee_date is the date of the latest-dated annual_fee_posted
\* row plus one year when that row is an exact one, and deleting a row that is
\* not the latest leaves annual_fee_date as it was.
C11_DueDateFollowsEvents ==
    [][(last'.op \in EventOps /\ card.status = "active" /\ HasFee(card.annual_fee))
          => /\ LatestIsExact(events')
                   => card'.annual_fee_date = AddYears(LatestDate(events'), 1)
             /\ (last'.op = "delete_event" /\ events' # EmptyBag
                    /\ last'.date < LatestDate(events'))
                   => card'.annual_fee_date = card.annual_fee_date]_vars

----------------------------------------------------------------------------
\* Properties of the rejected calls

\* the card's fields, events, benefit rows and bonus-category rows are as
\* they were, and the call was answered with an error
Refused == ~last'.ok /\ UNCHANGED <<card, events, benefits, categories, others>>

\* C12: close of an already-closed card, close with close_date < open_date,
\* reopen of a card that is not closed, product change of a closed card,
\* product change to the template the card already has and product change
\* with change_date < open_date are each rejected and leave the card's
\* fields, its events and its benefits exactly as they were.
C12_RejectedCallsChangeNothing ==
    [][/\ \A d \in SyncDates :
             ( /\ last'.op = "close"
               /\ card.status = "closed" \/ (card.open_date # NoDate /\ d < card.open_date)
               /\ CloseCard(d) ) => Refused
       /\ (last'.op = "reopen" /\ card.status # "closed" /\ ReopenCard) => Refused
       /\ \A d \in SyncDates, sync_benefits \in BOOLEAN :
             ( /\ last'.op = "product_change"
               /\ \/ card.status = "closed"
                  \/ card.template_id = "free"
                  \/ (card.open_date # NoDate /\ d < card.open_date)
               /\ ProductChange("free", d, NoFee, FALSE, sync_benefits) ) => Refused]_vars

\* a product change dated before the open date has been rejected on an active
\* card of another template that has events, benefits and bonus categories
C12_Witness ==
    /\ last.op = "product_change" /\ ~last.ok
    /\ card.status = "active" /\ card.template_id # "free"
    /\ events # EmptyBag /\ benefits # << >> /\ categories # << >>

----------------------------------------------------------------------------
\* Properties of the reconciler

\* the number of cards of a fleet that satisfy P
CountCards(fleet, P(_)) == Cardinality({i \in 1..Len(fleet) : P(fleet[i])})

\* a run of sync_cards_to_templates that reached its commit
SyncRun == Sync(0)

\* every card the run visited was skipped and nothing was counted
AllSkipped(s, fleet) ==
    s = [NoSummary EXCEPT !.cards_skipped = CountCards(fleet, Queried)]

\* C13: a sync run that directly follows another sync run (no catalog change,
\* no other request between them) leaves every card, its benefits and its
\* bonus categories as the first run left them, and reports every visited
\* card as skipped with all added, updated, retired and removed counts zero,
\* whether the first run initialised the card or synced it.
C13_SecondSyncSkips ==
    [][(last.op = "sync" /\ last.ok /\ SyncRun)
          => /\ UNCHANGED <<card, benefits, categories, others>>
             /\ AllSkipped(summary', Fleet)]_vars

\* a run has skipped every card, after an earlier run had initialised the
\* legacy card and synced the stale card and the followed card
C13_Witness ==
    /\ last.op = "sync" /\ last.ok
    /\ AllSkipped(summary, Fleet)
    /\ card.id # 0 /\ Queried(Bundle(card, benefits, categories))
    /\ card.template_id = "free" /\ card.template_version_id = Templates.free.version_id
    /\ \E i \in 1..Len(benefits) : benefits[i].retired
    /\ others[2].card.template_version_id = Templates.plat.version_id
    /\ others[3].card.template_version_id = Templates.plat.version_id

\* the cards table after the step
FleetAfter == FleetOf(card', benefits', categories', others')

\* the cards a run takes through _sync_card (stored version differs from the
\* template's current one)
SteadyState(b) == Reconciled(b) /\ SyncBranch(b) = "sync"
FirstContact(b) == Reconciled(b) /\ SyncBranch(b) = "initialize"

\* the template entries of one benefit type
EntriesOf(template, benefit_type) ==
    IF benefit_type = "credit" THEN CreditEntries(template)
    ELSE ThresholdEntries(template)

\* the non-retired template-owned benefit rows of one type
LiveOwned(bs, benefit_type) ==
    {i \in 1..Len(bs) : /\ bs[i].from_template /\ ~bs[i].retired
                         /\ bs[i].benefit_type = benefit_type}

\* the benefit rows of one type mirror the template entries of that type
Mirrors(bs, entries, benefit_type) ==
    /\ {bs[i].benefit_name : i \in LiveOwned(bs, benefit_type)} = EntryNames(entries)
    /\ \A i \in LiveOwned(bs, benefit_type) :
          \E k \in 1..Len(entries) :
             /\ entries[k].name = bs[i].benefit_name
             /\ entries[k].amount = bs[i].benefit_amount
             /\ entries[k].frequency = bs[i].frequency
             /\ entries[k].reset_type = bs[i].reset_type

\* the rows past the old ones start the current window with no usage
FreshRows(old, new, open_date, td) ==
    \A i \in (Len(old) + 1)..Len(new) :
       /\ new[i].amount_used = 0
       /\ new[i].period_start =
              get_current_period(new[i].frequency, new[i].reset_type, open_date, td)[1]

\* C14: after a steady-state sync, separately for plain credits and for spend
\* thresholds, the names of the card's non-retired template-owned benefits of
\* the type are the names of the template's entries of the type, each such
\* benefit has the entry's amount, frequency and reset type, each newly
\* created one has amount_used = 0 and period_start = the start of the
\* current window for the card's open_date, and the card carries the
\* template's current version id.
C14_SyncMirrorsTemplate ==
    [][SyncRun =>
         \A i \in 1..Len(Fleet) :
            SteadyState(Fleet[i]) =>
               LET template == get_template(Fleet[i].card.template_id)
                   after == FleetAfter[i]
               IN  /\ \A benefit_type \in {"credit", "spend_threshold"} :
                         Mirrors(after.benefits, EntriesOf(template, benefit_type),
                                 benefit_type)
                   /\ FreshRows(Fleet[i].benefits, after.benefits,
                                Fleet[i].card.open_date, today)
                   /\ after.card.template_version_id = template.version_id]_vars

\* the benefit rows of `before` are all among the rows of `after`, at their
\* places in id order and under their names and types
RowsKept(before, after) ==
    /\ Len(after) >= Len(before)
    /\ \A j \in 1..Len(before) :
          /\ after[j].benefit_name = before[j].benefit_name
          /\ after[j].amount_used = before[j].amount_used
          /\ after[j].period_start = before[j].period_start

\* C15: no sync run removes a benefit row: every benefit present before the
\* run is present after it, and a template-owned benefit whose name is absent
\* from the template is retired by a steady-state sync; every template-owned
\* bonus category whose name is absent from the template is gone from the
\* card after a steady-state sync.
C15_RetireNotDelete ==
    [][SyncRun =>
         \A i \in 1..Len(Fleet) :
            LET before == Fleet[i]
                after == FleetAfter[i]
                template == get_template(before.card.template_id)
            IN  /\ RowsKept(before.benefits, after.benefits)
                /\ SteadyState(before) =>
                      /\ \A j \in 1..Len(before.benefits) :
                            ( /\ before.benefits[j].from_template
                              /\ before.benefits[j].benefit_name \notin
                                    EntryNames(EntriesOf(template,
                                               before.benefits[j].benefit_type)) )
                            => after.benefits[j].retired
                      /\ \A j \in 1..Len(after.categories) :
                            after.categories[j].from_template
                            => after.categories[j].category \in
                                  EntryNames(CategoryEntries(template))]_vars

\* the names first contact tags: benefit rows by credit and threshold names,
\* category rows by category names
BenefitNames(template) ==
    EntryNames(CreditEntries(template)) \cup EntryNames(ThresholdEntries(template))

CategoryNames(template) == EntryNames(CategoryEntries(template))

\* the custom rows of a sequence, in order
CustomRows(rows) == SelectSeq(rows, LAMBDA row : ~row.from_template)

\* every custom row of the card is after the run what it was before it
CustomUntouched(before, after) ==
    /\ \A j \in 1..Len(before.benefits) :
          ~before.benefits[j].from_template => after.benefits[j] = before.benefits[j]
    /\ CustomRows(after.categories) = CustomRows(before.categories)

\* C16 as stated: for any sync run on a card, first-contact initialisation or
\* steady-state sync, every benefit and every bonus category with
\* from_template = false before the run has all its fields unchanged after
\* the run and is not deleted.
C16_CustomUntouchedByAnySync ==
    [][SyncRun =>
         \A i \in 1..Len(Fleet) : CustomUntouched(Fleet[i], FleetAfter[i])]_vars

\* C16: a steady-state sync leaves every custom benefit and bonus category as
\* it was and deletes none; a first-contact initialisation does so for the
\* custom rows whose name is not the name of a current template entry.
C16_CustomUntouched ==
    [][SyncRun =>
         \A i \in 1..Len(Fleet) :
            LET before == Fleet[i]
                after == FleetAfter[i]
                template == get_template(before.card.template_id)
            IN  /\ ~FirstContact(before) => CustomUntouched(before, after)
                /\ FirstContact(before) =>
                      /\ \A j \in 1..Len(before.benefits) :
                            ( /\ ~before.benefits[j].from_template
                              /\ before.benefits[j].benefit_name \notin
                                    BenefitNames(template) )
                            => after.benefits[j] = before.benefits[j]
                      /\ \A j \in 1..Len(before.categories) :
                            ( /\ ~before.categories[j].from_template
                              /\ before.categories[j].category \notin
                                    CategoryNames(template) )
                            => after.categories[j] = before.categories[j]]_vars

\* a run has synced the stale card and initialised the legacy card, and their
\* custom 'lounge' benefits and 'shops' categories are as they were
C16_Witness ==
    /\ last.op = "sync" /\ last.ok
    /\ summary.cards_synced > 0 /\ summary.cards_initialized > 0
    /\ others[2].card.template_version_id = Templates.plat.version_id
    /\ others[2].benefits[3] = StaleCard.benefits[3]
    /\ \E j \in 1..Len(others[2].categories) :
          others[2].categories[j] = StaleCard.categories[3]
    /\ others[3].card.template_version_id = Templates.plat.version_id
    /\ others[3].benefits[3] = LegacyCard.benefits[3]
    /\ others[3].categories[2] = LegacyCard.categories[2]

\* an active card of a catalog template with a version id, itself without a
\* stored version
OnFirstContact(b) ==
    /\ b.card.status = "active"
    /\ b.card.template_id # NoTemplate
    /\ HasTemplate(b.card.template_id)
    /\ get_template(b.card.template_id).version_id # NoVersion
    /\ b.card.template_version_id = NoVersion

\* C17: on first contact a run stamps the template's current version id on
\* the card and sets from_template on exactly the existing benefits and bonus
\* categories whose name is the name of a current template entry; no other
\* field of any record changes, nothing is created, retired or deleted, and
\* the card's annual_fee stays.
C17_FirstContactTagsOnly ==
    [][SyncRun =>
         \A i \in 1..Len(Fleet) :
            LET before == Fleet[i]
                after == FleetAfter[i]
                template == get_template(before.card.template_id)
            IN  OnFirstContact(before) =>
                  /\ after.card =
                        [before.card EXCEPT !.template_version_id = template.version_id]
                  /\ after.card.annual_fee = before.card.annual_fee
                  /\ Len(after.benefits) = Len(before.benefits)
                  /\ \A j \in 1..Len(before.benefits) :
                        after.benefits[j] =
                          [before.benefits[j] EXCEPT !.from_template =
                             @ \/ before.benefits[j].benefit_name \in
                                    BenefitNames(template)]
                  /\ Len(after.categories) = Len(before.categories)
                  /\ \A j \in 1..Len(before.categories) :
                        after.categories[j] =
                          [before.categories[j] EXCEPT !.from_template =
                             @ \/ before.categories[j].category \in
                                    CategoryNames(template)]]_vars

\* the legacy card after its first contact: 'uber', 'nights' and 'dining' are
\* template-owned with the values they had, 'lounge' and 'shops' are custom,
\* the fee is the card's own
C17_Witness ==
    /\ last.op = "sync" /\ last.ok
    /\ others[3].card =
          [LegacyCard.card EXCEPT !.template_version_id = Templates.plat.version_id]
    /\ others[3].card.annual_fee # Templates.plat.annual_fee
    /\ others[3].benefits[1] = [LegacyCard.benefits[1] EXCEPT !.from_template = TRUE]
    /\ others[3].benefits[2] = [LegacyCard.benefits[2] EXCEPT !.from_template = TRUE]
    /\ ~others[3].benefits[3].from_template
    /\ others[3].categories[1] = [LegacyCard.categories[1] EXCEPT !.from_template = TRUE]
    /\ ~others[3].categories[2].from_template

\* an active card of a catalog template with a version id, with a stored
\* version that is not the template's current one
OnSteadyState(b) ==
    /\ b.card.status = "active"
    /\ b.card.template_id # NoTemplate
    /\ HasTemplate(b.card.template_id)
    /\ get_template(b.card.template_id).version_id # NoVersion
    /\ b.card.template_version_id # NoVersion
    /\ b.card.template_version_id # get_template(b.card.template_id).version_id

\* a card update that carries annual_fee sets the flag; a set flag survives
\* every step that is not a product change, on every card
FlagSticky ==
    /\ \A u \in SyncUpdates :
          "annual_fee" \in u.fields /\ UpdateCard(u.fields, u)
          => card'.annual_fee_user_modified
    /\ ( card.id # 0 /\ card.annual_fee_user_modified
          /\ last'.op # "product_change" ) => card'.annual_fee_user_modified
    /\ \A i \in 1..Len(others) :
          others[i].card.annual_fee_user_modified
          => others'[i].card.annual_fee_user_modified

\* while the flag is set no run changes the card's annual_fee
FlagShields ==
    SyncRun =>
      \A i \in 1..Len(Fleet) :
         Fleet[i].card.annual_fee_user_modified
         => FleetAfter[i].card.annual_fee = Fleet[i].card.annual_fee

\* C18 as stated: once a card update sets annual_fee the flag stays true
\* until the next product change; while it is true no sync changes
\* annual_fee, and while it is false a steady-state sync sets annual_fee to
\* the template's current fee.
C18_StickyFeeAlwaysSet ==
    [][ /\ FlagSticky
        /\ FlagShields
        /\ SyncRun =>
              \A i \in 1..Len(Fleet) :
                 ( OnSteadyState(Fleet[i])
                   /\ ~Fleet[i].card.annual_fee_user_modified )
                 => FleetAfter[i].card.annual_fee =
                      get_template(Fleet[i].card.template_id).annual_fee ]_vars

\* C18: once a card update sets annual_fee the flag stays true until the
\* next product change; while it is true no sync changes annual_fee; while
\* it is false a steady-state sync sets annual_fee to the template's current
\* fee when the template has one and leaves annual_fee as it is when the
\* template has none.
C18_StickyFee ==
    [][ /\ FlagSticky
        /\ FlagShields
        /\ SyncRun =>
              \A i \in 1..Len(Fleet) :
                 ( OnSteadyState(Fleet[i])
                   /\ ~Fleet[i].card.annual_fee_user_modified )
                 => FleetAfter[i].card.annual_fee =
                      IF get_template(Fleet[i].card.template_id).annual_fee # NoFee
                      THEN get_template(Fleet[i].card.template_id).annual_fee
                      ELSE Fleet[i].card.annual_fee ]_vars

\* a steady-state run has stamped the current version on a card whose fee the
\* user set: the fee is still the user's, while the stale card carries the
\* template's fee
C18_Witness ==
    /\ last.op = "sync" /\ last.ok
    /\ card.id # 0 /\ card.annual_fee_user_modified
    /\ card.template_id = "free"
    /\ card.template_version_id = Templates.free.version_id
    /\ card.annual_fee = 120
    /\ others[2].card.annual_fee = Templates.plat.annual_fee
    /\ StaleCard.card.annual_fee # Templates.plat.annual_fee

\* the four groups of cards a run has nothing to do for
IsClosed(b) == b.card.status = "closed"
NoTemplateId(b) == b.card.template_id = NoTemplate
TemplateMissing(b) == b.card.template_id # NoTemplate /\ ~HasTemplate(b.card.template_id)
TemplateUnversioned(b) ==
    /\ b.card.template_id # NoTemplate /\ HasTemplate(b.card.template_id)
    /\ get_template(b.card.template_id).version_id = NoVersion

\* an active card whose stored version is the template's current one
UpToDate(b) ==
    /\ b.card.template_id # NoTemplate /\ HasTemplate(b.card.template_id)
    /\ get_template(b.card.template_id).version_id # NoVersion
    /\ b.card.template_version_id = get_template(b.card.template_id).version_id

\* the number of non-closed cards of the fleet with a template id that are in
\* one of the groups
Skipped(fleet) ==
    Cardinality({i \in 1..Len(fleet) :
                   /\ ~IsClosed(fleet[i])
                   /\ \/ TemplateMissing(fleet[i])
                      \/ TemplateUnversioned(fleet[i])
                      \/ UpToDate(fleet[i])})

\* C19: a batch sync leaves the card fields, benefits and bonus categories of
\* every card that is closed, has no template_id, references a template
\* missing from the catalog or references a template without a version id as
\* they were; the cards of the last two groups are counted as skipped (with
\* the cards that are already current), and closed cards are counted in no
\* bucket: the three card counts add up to the active cards with a template.
C19_SkippedCardsUntouched ==
    [][SyncRun =>
         /\ \A i \in 1..Len(Fleet) :
               ( \/ IsClosed(Fleet[i]) \/ NoTemplateId(Fleet[i])
                 \/ TemplateMissing(Fleet[i]) \/ TemplateUnversioned(Fleet[i]) )
               => FleetAfter[i] = Fleet[i]
         /\ summary'.cards_skipped = Skipped(Fleet)
         /\ summary'.cards_synced + summary'.cards_initialized
               + summary'.cards_skipped
             = Cardinality({i \in 1..Len(Fleet) :
                              ~IsClosed(Fleet[i]) /\ ~NoTemplateId(Fleet[i])})]_vars

\* a run that reconciled other cards has left the closed stale card, the card
\* of the unversioned template, the card of the missing template and the card
\* without a template as they were, and counted two or more cards as skipped
C19_Witness ==
    /\ last.op = "sync" /\ last.ok
    /\ summary.cards_synced > 0
    /\ summary.cards_skipped >= 2
    /\ others[1] = ClosedCard /\ IsClosed(others[1])
    /\ others[1].card.template_version_id # Templates.plat.version_id
    /\ others[4] = UnversionedCard /\ TemplateUnversioned(others[4])
    /\ others[5] = MissingCard /\ TemplateMissing(others[5])
    /\ others[6] = CustomCard /\ NoTemplateId(others[6])
    /\ card.id # 0 /\ card.status = "closed" /\ card.template_id # NoTemplate

\* C20: in a batch run in which reconciling one card fails, the changes for
\* every other eligible card, those before and those after the failing one,
\* are applied and committed.
C20_FailSoftBatch ==
    [][\A k \in 1..Len(Fleet) :
          Sync(k) =>
            \A i \in 1..Len(Fleet) \ {k} :
               ( OnFirstContact(Fleet[i]) \/ OnSteadyState(Fleet[i]) )
               => FleetAfter[i] = SyncedBundle(Fleet[i], today)]_vars

----------------------------------------------------------------------------
\* The fee lookup on its own: a card of one template and one flat fee is asked
\* for the fee of an anniversary year.

FeeTemplates == {NoTemplate, "plat", "free", "basic", "cash", "gold", "gone"}
FlatFees == {95, 550}
FeeYears == 2015..2027

FeeInit ==
    /\ \E t \in FeeTemplates, f \in FlatFees :
          card = [NoCard EXCEPT !.id = 1, !.template_id = t, !.annual_fee = f]
    /\ events = EmptyBag
    /\ benefits = << >>
    /\ categories = << >>
    /\ others = << >>
    /\ summary = NoSummary
    /\ today = 20250615
    /\ last = NoRequest
    /\ served = 0
    /\ returned = << >>

\* one iteration of the anniversary walk: the fee of the event of that year
FeeForYear(year) ==
    /\ returned' = << [year |-> year,
                        fee |-> ResolveFee(CardTimeline(card.template_id), year,
                                           card.annual_fee)] >>
    /\ last' = Request("fee_for_year", TRUE, NoDate, NoDate, FALSE)
    /\ UNCHANGED <<card, events, benefits, categories, others, summary, today, served>>

FeeNext == \E year \in FeeYears : FeeForYear(year)

FeeSpec == FeeInit /\ [][FeeNext]_vars

----------------------------------------------------------------------------
\* get_current_period on its own: a benefit of one frequency and reset type on
\* a card with one anchor is asked for its window at a reference date, and
\* then again on the day after each window it was given.

PeriodAnchors == {NoDate, 20230601, 20240131, 20240229, 20241130}
PeriodRefs == {20240115, 20240131, 20240229, 20241130, 20250315, 20250601}

\* the last day a window is asked for
PeriodHorizon == 20260630

PeriodInit ==
    /\ \E a \in PeriodAnchors : card = [NoCard EXCEPT !.id = 1, !.open_date = a]
    /\ events = EmptyBag
    /\ \E f \in Frequencies, r \in ResetTypes :
          benefits = << CardBenefit("uber", 10, f, r, "credit", FALSE, NoNotes, NoDate) >>
    /\ categories = << >>
    /\ others = << >>
    /\ summary = NoSummary
    /\ today \in PeriodRefs
    /\ last = NoRequest
    /\ served = 0
    /\ returned = << >>

\* a call get_current_period(frequency, reset_type, open_date, reference_date)
GetCurrentPeriod ==
    /\ \/ returned = << >>
       \/ returned # << >> /\ returned[1].reference # today
    /\ LET window == get_current_period(benefits[1].frequency, benefits[1].reset_type,
                                        card.open_date, today)
       IN  returned' = << [start |-> window[1], end |-> window[2],
                           reference |-> today] >>
    /\ last' = Request("get_current_period", TRUE, NoDate, NoDate, FALSE)
    /\ UNCHANGED <<card, events, benefits, categories, others, summary, today, served>>

\* the reference date moves to the day after the window that was returned
PeriodEnds ==
    /\ returned # << >>
    /\ returned[1].reference = today
    /\ NextDay(returned[1].end) <= PeriodHorizon
    /\ today' = NextDay(returned[1].end)
    /\ last' = Request("period_ends", TRUE, NoDate, NoDate, FALSE)
    /\ UNCHANGED <<card, events, benefits, categories, others, summary, served,
                   returned>>

PeriodNext == GetCurrentPeriod \/ PeriodEnds

PeriodSpec == PeriodInit /\ [][PeriodNext]_vars

----------------------------------------------------------------------------
\* Benefit periods

\* the start of the current window of a benefit row
WindowStart(benefit, card_open_date) ==
    get_current_period(benefit.frequency, benefit.reset_type, card_open_date,
                       today)[1]

\* the stored period_start is unset or earlier than the current window start
IsStale(benefit, card_open_date) ==
    \/ benefit.period_start = NoDate
    \/ benefit.period_start < WindowStart(benefit, card_open_date)

\* a stored or returned record at the current window start with this usage
StartsAnew(record, start, usage) ==
    record.period_start = start /\ record.amount_used = usage

\* the per-card list, the all-cards summary and the usage update reset the
\* rows selected by Checked(_) that are stale, in the store and in the response
RefreshOnRead(Checked(_)) ==
    /\ ListBenefits =>
          /\ Len(returned') = Len(benefits)
          /\ \A j \in 1..Len(benefits) :
                Checked(benefits[j]) /\ IsStale(benefits[j], card.open_date) =>
                  /\ StartsAnew(benefits'[j], WindowStart(benefits[j], card.open_date), 0)
                  /\ StartsAnew(returned'[j], WindowStart(benefits[j], card.open_date), 0)
    /\ ListAllBenefits =>
          /\ \A i \in 1..Len(Fleet) : \A j \in 1..Len(Fleet[i].benefits) :
                LET before == Fleet[i].benefits[j]
                    open_date == Fleet[i].card.open_date
                IN  ( /\ Fleet[i].card.status = "active" /\ ~before.retired
                      /\ IsStale(before, open_date) ) =>
                      /\ StartsAnew(FleetOf(card', benefits', categories', others')[i]
                                       .benefits[j],
                                    WindowStart(before, open_date), 0)
                      /\ \E k \in 1..Len(returned') :
                            /\ returned'[k].benefit_name = before.benefit_name
                            /\ StartsAnew(returned'[k],
                                          WindowStart(before, open_date), 0)
    /\ \A i \in WrittenRows, a \in UsageAmounts :
          ( /\ UpdateUsage(i, a) /\ Checked(benefits[i])
            /\ IsStale(benefits[i], card.open_date) ) =>
            /\ StartsAnew(benefits'[i], WindowStart(benefits[i], card.open_date), a)
            /\ StartsAnew(returned'[1], WindowStart(benefits[i], card.open_date), a)

AnyRow(benefit) == TRUE
NotRetired(benefit) == ~benefit.retired

\* C21 as stated: every benefit returned by a read (per-card list, all-cards
\* summary) or by a usage update whose stored period_start is unset or
\* earlier than the current window start is returned and stored with
\* period_start = the current window start and amount_used = 0 (the supplied
\* usage for a usage update).
C21_EveryReadRefreshes == [][RefreshOnRead(AnyRow)]_vars

\* C21: the same for every benefit that is not retired.
C21_ReadRefreshes == [][RefreshOnRead(NotRetired)]_vars

\* a year later the per-card list has moved the monthly credit and the row
\* without a period_start into their current windows with no usage, in the
\* store and in the response
C21_Witness ==
    /\ last.op = "list_benefits"
    /\ today = 20260615
    /\ Len(returned) >= 4
    /\ benefits[1].benefit_name = "uber" /\ benefits[1].frequency = "monthly"
    /\ StartsAnew(benefits[1], 20260601, 0) /\ StartsAnew(returned[1], 20260601, 0)
    /\ benefits[4].frequency = "annual" /\ benefits[4].reset_type = "calendar"
    /\ StartsAnew(benefits[4], 20260101, 0) /\ StartsAnew(returned[4], 20260101, 0)

\* no benefit row of any card has an earlier period_start after the step
PeriodStartKept ==
    \A i \in 1..Len(Fleet) : \A j \in 1..Len(Fleet[i].benefits) :
       FleetOf(card', benefits', categories', others')[i].benefits[j].period_start
         >= Fleet[i].benefits[j].period_start

\* a benefit edit that carries frequency or reset_type
PeriodEdit ==
    \E i \in WrittenRows, u \in BenefitUpdates :
       /\ UpdateBenefit(i, u.fields, u)
       /\ ("frequency" \in u.fields \/ "reset_type" \in u.fields)

C23_WindowHoldsReference ==
    [][GetCurrentPeriod =>
         /\ returned'[1].start <= today
         /\ today <= returned'[1].end]_vars

\* the benefit asked about resets by card year and the card has an anchor
ByCardYear == benefits[1].reset_type = "cardiversary" /\ card.open_date # NoDate

\* the call asks for the window of the day after the window returned before,
\* which was the window of a reference date on or after the anchor
AsksNextWindow ==
    /\ GetCurrentPeriod
    /\ ByCardYear
    /\ returned # << >>
    /\ returned[1].reference >= card.open_date
    /\ today = NextDay(returned[1].end)

\* C24: under cardiversary alignment with a fixed anchor and frequency, the
\* window returned for the day after a window (s, e) of a reference date on
\* or after the anchor starts on that day, e + 1 day, and the window of a
\* reference date from the anchor up to one increment after it starts at the
\* anchor: the windows are consecutive, without overlap or gap.
C24_WindowsContiguous ==
    [][ /\ AsksNextWindow =>
              /\ returned'[1].start = NextDay(returned[1].end)
              /\ returned'[1].start > returned[1].end
        /\ ( /\ GetCurrentPeriod /\ ByCardYear
              /\ today >= card.open_date
              /\ today < AddMonths(card.open_date,
                                   _FREQUENCY_DELTA(benefits[1].frequency)) )
            => returned'[1].start = card.open_date ]_vars

\* the annual window of a card opened on 29 February 2024 has ended and the
\* next one starts on the day after its end, 28 February 2025
C24_Witness ==
    /\ ByCardYear /\ benefits[1].frequency = "annual"
    /\ card.open_date = 20240229
    /\ returned # << >>
    /\ returned[1].reference = 20250228
    /\ returned[1].start = 20250228 /\ returned[1].end = 20260227

\* the last day of a month
LastOf(y, m) == MkDate(y, m, DaysInMonth(y, m))

\* the calendar window of a reference date, frequency by frequency
CalendarWindow(frequency, ref) ==
    LET y == Year(ref)
        m == Month(ref)
        q == CHOOSE qm \in {1, 4, 7, 10} : qm <= m /\ m <= qm + 2
    IN  CASE frequency = "monthly" -> << MkDate(y, m, 1), LastOf(y, m) >>
          [] frequency = "quarterly" -> << MkDate(y, q, 1), LastOf(y, q + 2) >>
          [] frequency = "semi_annual" ->
               IF m <= 6 THEN << MkDate(y, 1, 1), MkDate(y, 6, 30) >>
               ELSE << MkDate(y, 7, 1), MkDate(y, 12, 31) >>
          [] frequency = "annual" -> << MkDate(y, 1, 1), MkDate(y, 12, 31) >>

\* C25: under calendar alignment the window of any reference date is the
\* reference month (monthly), the quarter starting in month 1, 4, 7 or 10 that
\* holds the reference (quarterly), Jan 1 to Jun 30 or Jul 1 to Dec 31 of the
\* reference year (semi_annual), Jan 1 to Dec 31 of the reference year
\* (annual), whatever the anchor date is.
C25_CalendarWindows ==
    [][( GetCurrentPeriod /\ benefits[1].reset_type = "calendar" ) =>
         /\ << returned'[1].start, returned'[1].end >>
               = CalendarWindow(benefits[1].frequency, today)
         /\ \A a \in PeriodAnchors :
               get_current_period(benefits[1].frequency, "calendar", a, today)
                 = << returned'[1].start, returned'[1].end >>]_vars

\* a card with an anchor in June has been given the last quarter of 2024 for a
\* reference date in November
C25_Witness ==
    /\ benefits[1].reset_type = "calendar" /\ benefits[1].frequency = "quarterly"
    /\ card.open_date = 20230601
    /\ returned # << >>
    /\ returned[1].reference = 20241130
    /\ returned[1].start = 20241001 /\ returned[1].end = 20241231

\* the months from year 0 to the month of a date
MonthIndex(d) == Year(d) * 12 + Month(d) - 1

\* C27: under cardiversary alignment each window start is the previous
\* window's start moved by one frequency increment, with the day clamped to
\* the last day of the target month; once clamped the day of the month never
\* increases again (anchor Jan 31 monthly: the window containing 2025-03-15
\* is Feb 28 to Mar 27).
C27_ClampPersists ==
    [][ /\ AsksNextWindow =>
              LET s == returned[1].start
                  n == returned'[1].start
                  dim == DaysInMonth(Year(n), Month(n))
              IN  /\ MonthIndex(n) = MonthIndex(s)
                                       + _FREQUENCY_DELTA(benefits[1].frequency)
                  /\ Day(n) = IF Day(s) > dim THEN dim ELSE Day(s)
                  /\ Day(n) <= Day(s)
                  /\ Day(n) <= Day(card.open_date)
        /\ ( /\ GetCurrentPeriod /\ ByCardYear
              /\ benefits[1].frequency = "monthly"
              /\ card.open_date = 20240131 /\ today = 20250315 )
            => /\ returned'[1].start = 20250228
               /\ returned'[1].end = 20250327 ]_vars

\* the monthly windows of a card opened on 31 January 2024 have been walked
\* one after the other past February 2025: the window returned starts on the
\* 28th of a month that has a 31st
C27_Witness ==
    /\ ByCardYear /\ benefits[1].frequency = "monthly"
    /\ card.open_date = 20240131
    /\ returned # << >>
    /\ returned[1].reference = returned[1].start
    /\ returned[1].start = 20250328 /\ returned[1].end = 20250427

----------------------------------------------------------------------------
\* Fee timeline

\* the characters i .. i+5 of a version id spell the token _YYYY_ of a year
HasYearToken(vid, year) ==
    \E i \in 1..Len(vid) :
       /\ i + 5 <= Len(vid)
       /\ vid[i] = "_" /\ vid[i + 5] = "_"
       /\ \A k \in 1..4 : vid[i + k] \in Digits
       /\ year = DigitVal(vid[i + 1]) * 1000 + DigitVal(vid[i + 2]) * 100
                  + DigitVal(vid[i + 3]) * 10 + DigitVal(vid[i + 4])

\* the versions of the card's template, none when the card has no template
VersionsOf(template_id) ==
    IF template_id = NoTemplate THEN << >> ELSE get_template_versions(template_id)

\* C26: with a non-empty year-to-fee timeline the fee resolved for a year y
\* is the fee of the greatest timeline year <= y, and the fee of the smallest
\* timeline year when no timeline year is <= y; every timeline entry comes
\* from a version that carries a fee and whose id holds the token of that
\* year; with an empty timeline the card's flat annual_fee is used.
C26_FeeLookup ==
    [][\A y \in FeeYears :
          FeeForYear(y) =>
            LET timeline == CardTimeline(card.template_id)
                years == DOMAIN timeline
                versions == VersionsOf(card.template_id)
                fee == returned'[1].fee
            IN  /\ \A z \in years :
                      \E k \in 1..Len(versions) :
                         /\ versions[k].annual_fee # NoFee
                         /\ HasYearToken(versions[k].version_id, z)
                         /\ timeline[z] = versions[k].annual_fee
                /\ years = {} => fee = card.annual_fee
                /\ ( years # {} /\ \E z \in years : z <= y ) =>
                      \E g \in years :
                         /\ g <= y
                         /\ \A z \in years : z <= y => z <= g
                         /\ fee = timeline[g]
                /\ ( years # {} /\ \A z \in years : z > y ) =>
                      \E g \in years :
                         /\ \A z \in years : g <= z
                         /\ fee = timeline[g]]_vars

\* the lookup has answered for a year between two versions of the 'gold'
\* template with the fee of the earlier one
C26_Witness ==
    /\ last.op = "fee_for_year"
    /\ card.template_id = "gold"
    /\ returned[1].year = 2023
    /\ returned[1].fee = 250
    /\ DOMAIN CardTimeline("gold") = {2021, 2025}

----------------------------------------------------------------------------
\* Product change without an anniversary reset

\* C28: a product change performed with reset_af_anniversary = false adds no
\* annual_fee_posted event, removes none, and leaves annual_fee_date exactly
\* as it was before the change, whatever the old and new fees are.
C28_NoResetKeepsSchedule ==
    [][\A t \in ChangeTemplates, d \in ChangeDates, f \in ChangeFees, s \in BOOLEAN :
          ProductChange(t, d, f, FALSE, s) =>
            /\ events' = events
            /\ card'.annual_fee_date = card.annual_fee_date]_vars

\* a product change without reset went through on a card with a fee schedule
\* and left the card without a fee, the due date and the events still there
C28_Witness ==
    /\ last.op = "product_change" /\ last.ok /\ ~last.reset
    /\ card.annual_fee = 0
    /\ card.annual_fee_date # NoDate
    /\ events # EmptyBag

----------------------------------------------------------------------------
\* Card status

\* the status of every other card of the database is what it was
OtherStatusesKept ==
    /\ Len(others') = Len(others)
    /\ \A i \in 1..Len(others) : others'[i].card.status = others[i].card.status

\* C29: a card's status changes only through close (active to closed) and
\* reopen (closed to active): a close that succeeds found the card not closed,
\* a reopen that succeeds found it closed and leaves close_date null, and no
\* other step (card update, product change, template sync, benefit or
\* category request) changes the status of any card.
C29_StatusAlternates ==
    [][card.id # 0 =>
         /\ card'.status # card.status =>
               \/ /\ \E d \in SyncDates : CloseCard(d)
                  /\ card.status = "active" /\ card'.status = "closed"
               \/ /\ ReopenCard
                  /\ card.status = "closed" /\ card'.status = "active"
         /\ \A d \in SyncDates :
               CloseCard(d) /\ last'.ok =>
                 card.status # "closed" /\ card'.status = "closed"
         /\ ReopenCard /\ last'.ok =>
               /\ card.status = "closed" /\ card'.status = "active"
               /\ card'.close_date = NoDate
         /\ OtherStatusesKept]_vars

\* a card that was closed has been reopened: it is active and has no
\* close_date
C29_Witness ==
    /\ last.op = "reopen" /\ last.ok
    /\ card.status = "active"
    /\ card.close_date = NoDate
    /\ card.template_id # NoTemplate

----------------------------------------------------------------------------
\* Usage across a template version change

\* the row is template-owned and the template lists its name for its type
MatchedRow(row, template) ==
    /\ row.from_template
    /\ row.benefit_name \in EntryNames(EntriesOf(template, row.benefit_type))

\* C30: when a steady-state sync meets a template-owned benefit whose name the
\* template lists (and updates its amount, frequency or reset type, or
\* un-retires it), the row's amount_used, period_start and notes are after
\* the run what they were before it.
C30_SyncKeepsUsage ==
    [][SyncRun =>
         \A i \in 1..Len(Fleet) :
            LET before == Fleet[i]
                after == FleetAfter[i]
                template == get_template(before.card.template_id)
            IN  OnSteadyState(before) =>
                  \A j \in 1..Len(before.benefits) :
                     MatchedRow(before.benefits[j], template) =>
                       /\ j <= Len(after.benefits)
                       /\ after.benefits[j].benefit_name =
                             before.benefits[j].benefit_name
                       /\ after.benefits[j].amount_used =
                             before.benefits[j].amount_used
                       /\ after.benefits[j].period_start =
                             before.benefits[j].period_start
                       /\ after.benefits[j].notes = before.benefits[j].notes]_vars

\* the run has raised the amount of a monthly credit of the stale card from
\* 10 to 15 and the 4 used in June are still recorded on it
C30_Witness ==
    /\ last.op = "sync" /\ last.ok
    /\ \E i \in 1..Len(others) :
          /\ others[i].card.id = 3
          /\ others[i].card.template_version_id = get_template("plat").version_id
          /\ others[i].benefits[1].benefit_name = "uber"
          /\ others[i].benefits[1].benefit_amount = 15
          /\ others[i].benefits[1].amount_used = 4
          /\ others[i].benefits[1].period_start = 20250601

====
